---- MODULE Spec2Model ----
(***************************************************************************)
(* Verification model of the caching HTTP proxy (MatthewTeta/              *)
(* NetworkSystems-Proxy).                                                  *)
(*                                                                         *)
(* Part 1 models cache.c (the revision with `int cache_get(cache_t *,      *)
(* char *key, char *data_out, size_t *size_out, resolver, arg)` and the    *)
(* two-field cache_entry_t): the bucketed index, the per-entry status      *)
(* machine, the on-disk body files, the miss resolver of proxy.c and       *)
(* cache_free, exercised by threads that share one cache_t ("This is       *)
(* thread safe", cache.h).  Every sem_wait..sem_post section is one        *)
(* atomic action; file I/O happens between them, byte by byte.             *)
(*                                                                         *)
(* Part 2 models the supervisor of server.c and proxy_start (accept loop,   *)
(* fork, server_stop, the shutdown sequence), the worker handle_client of  *)
(* proxy.c, and the parts of http.c it relies on: the receive loop of      *)
(* http_message_recv and the header list.                                  *)
(*                                                                         *)
(* Part 3 models http.c on one message: the header collection              *)
(* (http_headers_parse, set, get, remove), http_message_recv step by step, *)
(* http_message_send over send_to_connection, and a message that is sent   *)
(* and received again.                                                     *)
(***************************************************************************)
EXTENDS Naturals, Integers, Sequences, FiniteSets, TLC

\* ------------------------------------------------------------------ bounds
NumWorkers == 2          \* threads calling cache_get
MaxCalls   == 2          \* cache_get calls made in one run, all threads together
MaxTime    == 2          \* time(NULL) runs over 0..MaxTime
NumBuckets == 2          \* buckets of the index kept by the model
TTL        == 1          \* cache->ttl, the cache_init argument (> 0)

Workers == 1..NumWorkers
Keys    == {"a", "b"}
Buckets == 0..(NumBuckets - 1)
BodyLen == 2             \* bytes of one origin response in the model
NumClients == 2          \* connections the supervisor accepts in one run
Clients == 1..NumClients

NULL    == 0             \* the null record pointer
NoKey   == ""            \* no key argument yet
NullBuf == <<-2>>        \* a NULL byte buffer
NoFile  == <<-1>>        \* the path does not exist on disk

\* cache_entry_status_t
CACHE_ENTRY_STATUS_IN_PROGRESS == "IN_PROGRESS"
CACHE_ENTRY_STATUS_OK          == "OK"
CACHE_ENTRY_STATUS_INVALID     == "INVALID"

VARIABLES
    \* ---- struct cache and the heap records it points to
    hash_table,      \* cache->hash_table: bucket -> list of record ids, head first
    storage,         \* heap of cache_entry_storage_t, id = index
    freed,           \* ids of records released by cache_entry_storage_free
    cache_users,     \* cache->num_users
    md5b,            \* bucket index md5String/bucket_idx gives each key
    files,           \* file at cache->path/<hash of key>: bytes or NoFile
    now,             \* time(NULL)
    exited,          \* the process called exit(1) or crashed
    \* ---- one cache_get activation per thread
    pc,              \* position of the thread inside cache_get
    key,             \* argument key
    cache_entry_ptr, \* local cache_entry_ptr
    synchronize_local_copy,
    data_out,        \* local (by-value) parameter data_out
    size,            \* caller's size, written through size_out
    data,            \* caller's data pointer (proxy.c: char *data = NULL)
    ret,             \* last return value of cache_get
    buffer,          \* resolver: bytes received from the origin
    ntot,            \* cache_set: bytes written so far
    ncalls,          \* cache_get calls made so far
    \* ---- cache_free
    free_pc,
    \* ---- observation (history) variables
    resolver_calls,  \* key -> number of cache_miss_resolver invocations
    origin_fds,      \* sockets to origins the process of the threads holds
    stored,          \* key -> bytes of the last completed cache_set (or NullBuf)
    \* ---- supervisor and workers (server.c, proxy.c)
    hc_pc,           \* connection -> position of its worker in handle_client
    request,         \* connection -> the parsed request_t
    response,        \* connection -> body of the response_t fetched
    client_recv,     \* connection -> what the client has been sent
    origin_requests, \* target -> requests the origin has received
    sup_pc,          \* position of the supervisor (proxy_start, server_start)
    stop_server,     \* server.c: int stop_server
    verbose,         \* server.verbose
    signalled,       \* connections whose worker has been sent SIGINT
    serverfd,        \* the listening socket
    blocklist,       \* the blocklist of the supervisor
    conn_ip,         \* connection -> connection->ip
    client_in,       \* connection -> what the client puts on the socket
    origin_conn,     \* connection -> origin connections opened / closed
    delivered,       \* connection -> headers of the request the origin got
    \* ---- one http_message_t and its connection (http.c)
    http             \* the message operated on, the socket and the locals

\* request_t after request_parse: target is host + uri, cacheable the value
\* of request_is_cacheable, blocked the value of blocklist_check on the host.
\* http_header_t: key and value strings.
Header(k, v) == [key |-> k, value |-> v]

\* Header lines clients send after the request line, in order.
ClientHeaderLists ==
    { <<>>,
      <<Header("Proxy-Connection", "keep-alive")>>,
      <<Header("Proxy-Connection", "keep-alive"),
        Header("Proxy-Connection", "keep-alive")>>,
      <<Header("Connection", "keep-alive"),
        Header("Proxy-Authorization", "Basic x")>>,
      <<Header("proxy-connection", "keep-alive")>> }

Requests  == [target : Keys, cacheable : BOOLEAN, blocked : BOOLEAN,
              headers : ClientHeaderLists]
\* Requests that carry no header line of their own.
PlainRequests == {r \in Requests : r.headers = <<>>}
NoRequest == [target |-> NoKey, cacheable |-> FALSE, blocked |-> FALSE,
              headers |-> <<>>]

\* http.h
MESSAGE_CHUNK_SIZE == 1024
HTTP_MESSAGE_MAX_HEADER_SIZE == 8192

\* What a client does on its connection: the size in bytes of the header
\* region of its request (request line, header lines and the blank line),
\* how many of these bytes it sends, whether each recv of the proxy finds
\* all the bytes still to come ("burst") or one byte ("trickle"), and what
\* it does once it has sent them: stay silent (poll times out after
\* KEEP_ALIVE_TIMEOUT_MS) or close.
HeaderSizes == {64, HTTP_MESSAGE_MAX_HEADER_SIZE, HTTP_MESSAGE_MAX_HEADER_SIZE + 1,
                HTTP_MESSAGE_MAX_HEADER_SIZE + MESSAGE_CHUNK_SIZE,
                HTTP_MESSAGE_MAX_HEADER_SIZE + MESSAGE_CHUNK_SIZE + 1}
ClientBehaviours ==
    {b \in [hdr_len : HeaderSizes, sent : HeaderSizes \cup {0},
            pace : {"burst", "trickle"}, last : {"timeout", "closed"}] :
        /\ b.sent \in {0, b.hdr_len}
        /\ (b.pace = "trickle" => b.hdr_len = 64)}
\* Clients that send a short request at once.
PlainBehaviours ==
    {b \in ClientBehaviours : b.hdr_len = 64 /\ b.sent = 64 /\ b.pace = "burst"
                              /\ b.last = "closed"}
NoBehaviour == [hdr_len |-> 0, sent |-> 0, pace |-> "burst", last |-> "closed"]
NoConn == [opened |-> 0, closed |-> 0]
\* No http_message_t is being operated on.
NoMessage == [op |-> "none"]

\* What a client has received: status code and body; nothing yet is status 0.
NothingSent == [status |-> 0, body |-> <<>>]

cacheVars  == <<hash_table, storage, freed, cache_users, md5b, files, now, exited>>
threadVars == <<pc, key, cache_entry_ptr, synchronize_local_copy, data_out,
                size, data, ret, buffer, ntot, ncalls>>
obsVars    == <<resolver_calls, stored, origin_fds>>
workerVars == <<hc_pc, request, response, client_recv, origin_requests,
                conn_ip, client_in, origin_conn, delivered>>
supVars    == <<sup_pc, stop_server, verbose, signalled, serverfd, blocklist>>
serverVars == <<workerVars, supVars, http>>
vars == <<cacheVars, threadVars, free_pc, obsVars, serverVars>>

\* ------------------------------------------------------------ cache_init
\* memset(cache, 0, ...): empty buckets, num_users = 0; the directory is
\* created empty (mkdir).  md5b is the bucket index cache_get derives from
\* the MD5 of a key: `hash[i] << (i * 8)` shifts an int by 32 bits and more
\* for i >= 4, so which function of the key it is depends on the build; it
\* is one function for the whole run, and `% CACHE_NUM_BUCKETS` keeps it in
\* range.
cache_init ==
    /\ hash_table = [b \in Buckets |-> <<>>]
    /\ storage = <<>>
    /\ freed = {}
    /\ cache_users = 0
    \* up to renaming of buckets: "a" in bucket 0, "b" with it or in the next
    /\ md5b \in {f \in [Keys -> Buckets] : f["a"] = 0 /\ f["b"] <= 1}
    /\ files = [k \in Keys |-> NoFile]
    /\ now = 0
    /\ exited = FALSE

Init ==
    /\ cache_init
    /\ pc = [w \in Workers |-> "idle"]
    /\ key = [w \in Workers |-> NoKey]
    /\ cache_entry_ptr = [w \in Workers |-> NULL]
    /\ synchronize_local_copy = [w \in Workers |-> 0]
    /\ data_out = [w \in Workers |-> NullBuf]
    /\ size = [w \in Workers |-> 0]
    /\ data = [w \in Workers |-> NullBuf]
    /\ ret = [w \in Workers |-> 0]
    /\ buffer = [w \in Workers |-> NullBuf]
    /\ ntot = [w \in Workers |-> 0]
    /\ ncalls = 0
    /\ free_pc = "idle"
    /\ resolver_calls = [k \in Keys |-> 0]
    /\ origin_fds = 0
    /\ stored = [k \in Keys |-> NullBuf]
    /\ hc_pc = [c \in Clients |-> "none"]
    /\ request = [c \in Clients |-> NoRequest]
    /\ response = [c \in Clients |-> NullBuf]
    /\ client_recv = [c \in Clients |-> NothingSent]
    /\ origin_requests = [k \in Keys |-> 0]
    /\ sup_pc = "init"
    /\ stop_server = 0
    /\ verbose = 0
    /\ signalled = {}
    /\ serverfd = "none"
    /\ blocklist = "loaded"
    /\ conn_ip = [c \in Clients |-> ""]
    /\ client_in = [c \in Clients |-> NoBehaviour]
    /\ origin_conn = [c \in Clients |-> NoConn]
    /\ delivered = [c \in Clients |-> <<>>]
    /\ http = NoMessage

\* ------------------------------------------------------------- cache_get
\* The while loop over the bucket's linked list: first record whose key
\* equals k (strcmp == 0), NULL when the list ends.
RECURSIVE Traverse(_, _, _)
Traverse(st, list, k) ==
    IF list = <<>> THEN NULL
    ELSE IF st[Head(list)].key = k THEN Head(list)
         ELSE Traverse(st, Tail(list), k)

\* malloc + memset 0 + key/path strdup + status INVALID
NewEntry(k) ==
    [key |-> k, status |-> CACHE_ENTRY_STATUS_INVALID, num_users |-> 0,
     timestamp |-> 0]

\* FindOrCreate with the traversal of the bucket's list left out: a new
\* record is linked on every call.
FindOrCreate_AlwaysCreate(w, k) ==
    LET b == md5b[k]
    IN  /\ storage' = Append(storage, NewEntry(k))
        /\ hash_table' = [hash_table EXCEPT ![b] = <<Len(storage) + 1>> \o @]
        /\ cache_entry_ptr' = [cache_entry_ptr EXCEPT ![w] = Len(storage) + 1]

\* sem_wait; find the record of key in its bucket or create it at the head
\* of the bucket's list; sem_post.
FindOrCreate(w, k) ==
    LET b     == md5b[k]
        found == Traverse(storage, hash_table[b], k)
    IN  IF found # NULL
        THEN /\ cache_entry_ptr' = [cache_entry_ptr EXCEPT ![w] = found]
             /\ UNCHANGED <<storage, hash_table>>
        ELSE /\ storage' = Append(storage, NewEntry(k))
             /\ hash_table' = [hash_table EXCEPT ![b] = <<Len(storage) + 1>> \o @]
             /\ cache_entry_ptr' = [cache_entry_ptr EXCEPT ![w] = Len(storage) + 1]

\* cache_get called with key == NULL: returns -1 at once.
CacheGet_NullKey(w) ==
    /\ ~exited /\ pc[w] = "idle" /\ free_pc = "idle" /\ ncalls < MaxCalls
    /\ ret' = [ret EXCEPT ![w] = -1]
    /\ ncalls' = ncalls + 1
    /\ UNCHANGED <<cacheVars, pc, key, cache_entry_ptr, synchronize_local_copy,
                   data_out, size, data, buffer, ntot, free_pc, obsVars>>
    /\ UNCHANGED serverVars

\* Entry of cache_get up to the first sem_post: hash the key, look the
\* record up or create it.
CacheGet_Lookup(w, k) ==
    /\ ~exited /\ pc[w] = "idle" /\ free_pc = "idle" /\ ncalls < MaxCalls
    /\ FindOrCreate(w, k)
    /\ key' = [key EXCEPT ![w] = k]
    /\ synchronize_local_copy' = [synchronize_local_copy EXCEPT ![w] = 0]
    /\ data_out' = [data_out EXCEPT ![w] = NullBuf]
    /\ size' = [size EXCEPT ![w] = 0]
    /\ data' = [data EXCEPT ![w] = NullBuf]
    /\ pc' = [pc EXCEPT ![w] = "loop"]
    /\ ncalls' = ncalls + 1
    /\ UNCHANGED <<freed, cache_users, md5b, files, now, exited, ret, buffer,
                   ntot, free_pc, obsVars>>
    /\ UNCHANGED serverVars

\* exit(1), or a fatal signal: every thread is gone and the memory of the
\* process with it; only the files of the cache directory stay.
Die ==
    /\ exited' = TRUE
    /\ hash_table' = [b \in Buckets |-> <<>>]
    /\ storage' = <<>>
    /\ freed' = {}
    /\ cache_users' = 0
    /\ pc' = [w \in Workers |-> "idle"]
    /\ key' = [w \in Workers |-> NoKey]
    /\ cache_entry_ptr' = [w \in Workers |-> NULL]
    /\ synchronize_local_copy' = [w \in Workers |-> 0]
    /\ data_out' = [w \in Workers |-> NullBuf]
    /\ size' = [w \in Workers |-> 0]
    /\ data' = [w \in Workers |-> NullBuf]
    /\ ret' = [w \in Workers |-> 0]
    /\ buffer' = [w \in Workers |-> NullBuf]
    /\ ntot' = [w \in Workers |-> 0]
    /\ free_pc' = "idle"
    /\ UNCHANGED <<md5b, files, now, ncalls>>

\* The record a thread holds has been released by cache_free.
Dangling(w) == cache_entry_ptr[w] \in freed \/ free_pc = "done"

\* CacheGet_Loop with the claim made on a private copy of the record: the
\* claimant goes on to the resolver, the shared record and counters keep
\* their values.
CacheGet_Loop_PrivateClaim(w) ==
    /\ ~exited /\ pc[w] = "loop"
    /\ LET p == cache_entry_ptr[w]
           e == storage[p]
       IN  CASE e.status = CACHE_ENTRY_STATUS_OK ->
                  IF now - e.timestamp > TTL
                  THEN /\ storage' = [storage EXCEPT ![p].status = CACHE_ENTRY_STATUS_INVALID]
                       /\ UNCHANGED <<cache_users, pc, synchronize_local_copy>>
                  ELSE /\ cache_users' = cache_users + 1
                       /\ storage' = [storage EXCEPT ![p].num_users = @ + 1]
                       /\ pc' = [pc EXCEPT ![w] = "fopen"]
                       /\ UNCHANGED synchronize_local_copy
             [] e.status = CACHE_ENTRY_STATUS_IN_PROGRESS ->
                  UNCHANGED <<storage, cache_users, pc, synchronize_local_copy>>
             [] e.status = CACHE_ENTRY_STATUS_INVALID ->
                  IF e.num_users = 0
                  THEN /\ synchronize_local_copy' = [synchronize_local_copy EXCEPT ![w] = 1]
                       /\ pc' = [pc EXCEPT ![w] = "resolve"]
                       /\ UNCHANGED <<storage, cache_users>>
                  ELSE UNCHANGED <<storage, cache_users, pc, synchronize_local_copy>>
    /\ UNCHANGED <<hash_table, freed, md5b, files, now, exited, key,
                   cache_entry_ptr, data_out, size, data, ret, buffer, ntot,
                   ncalls, free_pc, obsVars>>
    /\ UNCHANGED serverVars

\* CacheGet_Loop with the claim taken on an INVALID entry whatever its
\* num_users: readers of the old body are not waited for.
CacheGet_Loop_NoUserCheck(w) ==
    /\ ~exited /\ pc[w] = "loop"
    /\ LET p == cache_entry_ptr[w]
           e == storage[p]
       IN  CASE e.status = CACHE_ENTRY_STATUS_OK ->
                  IF now - e.timestamp > TTL
                  THEN /\ storage' = [storage EXCEPT ![p].status = CACHE_ENTRY_STATUS_INVALID]
                       /\ UNCHANGED <<cache_users, pc, synchronize_local_copy>>
                  ELSE /\ cache_users' = cache_users + 1
                       /\ storage' = [storage EXCEPT ![p].num_users = @ + 1]
                       /\ pc' = [pc EXCEPT ![w] = "fopen"]
                       /\ UNCHANGED synchronize_local_copy
             [] e.status = CACHE_ENTRY_STATUS_IN_PROGRESS ->
                  UNCHANGED <<storage, cache_users, pc, synchronize_local_copy>>
             [] e.status = CACHE_ENTRY_STATUS_INVALID ->
                  /\ cache_users' = cache_users + 1
                  /\ storage' = [storage EXCEPT ![p].num_users = @ + 1,
                                                ![p].status = CACHE_ENTRY_STATUS_IN_PROGRESS]
                  /\ synchronize_local_copy' = [synchronize_local_copy EXCEPT ![w] = 1]
                  /\ pc' = [pc EXCEPT ![w] = "resolve"]
    /\ UNCHANGED <<hash_table, freed, md5b, files, now, exited, key,
                   cache_entry_ptr, data_out, size, data, ret, buffer, ntot,
                   ncalls, free_pc, obsVars>>
    /\ UNCHANGED serverVars

\* CacheGet_Loop with an OK entry used whatever its age: the comparison of
\* time(NULL) - timestamp with the ttl is missing.
CacheGet_Loop_NoTTL(w) ==
    /\ ~exited /\ pc[w] = "loop"
    /\ LET p == cache_entry_ptr[w]
           e == storage[p]
       IN  CASE e.status = CACHE_ENTRY_STATUS_OK ->
                  /\ cache_users' = cache_users + 1
                  /\ storage' = [storage EXCEPT ![p].num_users = @ + 1]
                  /\ pc' = [pc EXCEPT ![w] = "fopen"]
                  /\ UNCHANGED synchronize_local_copy
             [] e.status = CACHE_ENTRY_STATUS_IN_PROGRESS ->
                  UNCHANGED <<storage, cache_users, pc, synchronize_local_copy>>
             [] e.status = CACHE_ENTRY_STATUS_INVALID ->
                  IF e.num_users = 0
                  THEN /\ cache_users' = cache_users + 1
                       /\ storage' = [storage EXCEPT ![p].num_users = @ + 1,
                                                     ![p].status = CACHE_ENTRY_STATUS_IN_PROGRESS]
                       /\ synchronize_local_copy' = [synchronize_local_copy EXCEPT ![w] = 1]
                       /\ pc' = [pc EXCEPT ![w] = "resolve"]
                  ELSE UNCHANGED <<storage, cache_users, pc, synchronize_local_copy>>
    /\ UNCHANGED <<hash_table, freed, md5b, files, now, exited, key,
                   cache_entry_ptr, data_out, size, data, ret, buffer, ntot,
                   ncalls, free_pc, obsVars>>
    /\ UNCHANGED serverVars

\* One pass of the coordination loop, from sem_wait to the sem_post that
\* follows the switch (the sleep(1) after it changes nothing).
CacheGet_Loop(w) ==
    /\ ~exited /\ pc[w] = "loop"
    /\ LET p == cache_entry_ptr[w]
           e == storage[p]
       IN  CASE e.status = CACHE_ENTRY_STATUS_OK ->
                  IF now - e.timestamp > TTL
                  THEN \* expired: invalidate and go round again
                       /\ storage' = [storage EXCEPT ![p].status = CACHE_ENTRY_STATUS_INVALID]
                       /\ UNCHANGED <<cache_users, pc, synchronize_local_copy>>
                  ELSE \* use the resource
                       /\ cache_users' = cache_users + 1
                       /\ storage' = [storage EXCEPT ![p].num_users = @ + 1]
                       /\ pc' = [pc EXCEPT ![w] = "fopen"]
                       /\ UNCHANGED synchronize_local_copy
             [] e.status = CACHE_ENTRY_STATUS_IN_PROGRESS ->
                  UNCHANGED <<storage, cache_users, pc, synchronize_local_copy>>
             [] e.status = CACHE_ENTRY_STATUS_INVALID ->
                  IF e.num_users = 0
                  THEN \* take ownership of obtaining the new copy
                       /\ cache_users' = cache_users + 1
                       /\ storage' = [storage EXCEPT ![p].num_users = @ + 1,
                                                     ![p].status = CACHE_ENTRY_STATUS_IN_PROGRESS]
                       /\ synchronize_local_copy' = [synchronize_local_copy EXCEPT ![w] = 1]
                       /\ pc' = [pc EXCEPT ![w] = "resolve"]
                  ELSE UNCHANGED <<storage, cache_users, pc, synchronize_local_copy>>
    /\ UNCHANGED <<hash_table, freed, md5b, files, now, exited, key,
                   cache_entry_ptr, data_out, size, data, ret, buffer, ntot,
                   ncalls, free_pc, obsVars>>
    /\ UNCHANGED serverVars

\* proxy_cache_miss_resolver up to the call of cache_set.  outcome:
\*   "connect_failed"  connect_to_hostname returned NULL: return
\*   "send_failed"     request_send failed: return
\*   "recv_null"       http_message_recv returned NULL and
\*                     http_get_message_buffer dereferences it: crash
\*   "received"        the response message arrived
ResolverOutcomes == {"connect_failed", "send_failed", "recv_null", "received"}

\* The response the origin gives to the n-th resolver invocation for a key:
\* BodyLen bytes that no other fetch of the key returns.
OriginResponse(n) == [i \in 1..BodyLen |-> n]

proxy_cache_miss_resolver(w, outcome) ==
    /\ ~exited /\ pc[w] = "resolve"
    /\ resolver_calls' = [resolver_calls EXCEPT ![key[w]] = @ + 1]
    /\ UNCHANGED stored
    /\ IF outcome = "recv_null"
       THEN Die /\ origin_fds' = 0
       ELSE /\ origin_fds' = IF outcome = "connect_failed" THEN origin_fds
                             ELSE origin_fds + 1
            /\ IF outcome \in {"connect_failed", "send_failed"}
               THEN /\ pc' = [pc EXCEPT ![w] = "resolved"]
                    /\ UNCHANGED buffer
               ELSE /\ buffer' = [buffer EXCEPT ![w] = OriginResponse(resolver_calls[key[w]] + 1)]
                    /\ pc' = [pc EXCEPT ![w] = "cache_set"]
            /\ UNCHANGED <<hash_table, storage, freed, cache_users, md5b, files,
                           now, exited, key, cache_entry_ptr,
                           synchronize_local_copy, data_out, size, data, ret,
                           ntot, ncalls, free_pc>>
    /\ UNCHANGED serverVars

\* cache_set: argument checks and fopen(path, "wb"), which truncates.
cache_set_open(w) ==
    /\ ~exited /\ pc[w] = "cache_set"
    /\ IF buffer[w] = NullBuf \/ Len(buffer[w]) = 0
       THEN \* return -1 without touching the file; close_connection
            /\ pc' = [pc EXCEPT ![w] = "resolved"]
            /\ origin_fds' = origin_fds - 1
            /\ UNCHANGED <<files, ntot>>
       ELSE /\ files' = [files EXCEPT ![key[w]] = <<>>]
            /\ ntot' = [ntot EXCEPT ![w] = 0]
            /\ pc' = [pc EXCEPT ![w] = "fwrite"]
            /\ UNCHANGED origin_fds
    /\ UNCHANGED <<hash_table, storage, freed, cache_users, md5b, now, exited,
                   key, cache_entry_ptr, synchronize_local_copy, data_out, size,
                   data, ret, buffer, ncalls, free_pc, resolver_calls, stored>>
    /\ UNCHANGED serverVars

\* cache_set: one fwrite of n > 0 bytes; after the last one fclose, return 0
\* and the resolver closes the connection to the origin and returns.
cache_set_fwrite(w, n) ==
    /\ ~exited /\ pc[w] = "fwrite"
    /\ n \in 1..(Len(buffer[w]) - ntot[w])
    /\ files' = [files EXCEPT ![key[w]] =
                    @ \o SubSeq(buffer[w], ntot[w] + 1, ntot[w] + n)]
    /\ ntot' = [ntot EXCEPT ![w] = @ + n]
    /\ IF ntot[w] + n = Len(buffer[w])
       THEN /\ pc' = [pc EXCEPT ![w] = "resolved"]
            /\ stored' = [stored EXCEPT ![key[w]] = buffer[w]]
            /\ origin_fds' = origin_fds - 1
       ELSE UNCHANGED <<pc, stored, origin_fds>>
    /\ UNCHANGED <<hash_table, storage, freed, cache_users, md5b, now, exited,
                   key, cache_entry_ptr, synchronize_local_copy, data_out, size,
                   data, ret, buffer, ncalls, free_pc, resolver_calls>>
    /\ UNCHANGED serverVars

\* CacheGet_MarkOK with the assignment of the timestamp left out: the entry
\* becomes OK with the timestamp it had.
CacheGet_MarkOK_KeepTimestamp(w) ==
    /\ ~exited /\ pc[w] = "resolved"
    /\ storage' = [storage EXCEPT ![cache_entry_ptr[w]].status = CACHE_ENTRY_STATUS_OK]
    /\ pc' = [pc EXCEPT ![w] = "fopen"]
    /\ UNCHANGED <<hash_table, freed, cache_users, md5b, files, now, exited,
                   key, cache_entry_ptr, synchronize_local_copy, data_out, size,
                   data, ret, buffer, ntot, ncalls, free_pc, obsVars>>
    /\ UNCHANGED serverVars

\* After the resolver returned: sem_wait; status = OK; timestamp = time(NULL);
\* sem_post.  Nothing tells cache_get whether the resolver wrote the file.
CacheGet_MarkOK(w) ==
    /\ ~exited /\ pc[w] = "resolved"
    /\ storage' = [storage EXCEPT ![cache_entry_ptr[w]].status = CACHE_ENTRY_STATUS_OK,
                                  ![cache_entry_ptr[w]].timestamp = now]
    /\ pc' = [pc EXCEPT ![w] = "fopen"]
    /\ UNCHANGED <<hash_table, freed, cache_users, md5b, files, now, exited,
                   key, cache_entry_ptr, synchronize_local_copy, data_out, size,
                   data, ret, buffer, ntot, ncalls, free_pc, obsVars>>
    /\ UNCHANGED serverVars

\* fopen(cache_entry_path, "rb") (exit(1) when it fails), the file size
\* through *size_out, data_out = malloc(*size_out).
CacheGet_Fopen(w) ==
    /\ ~exited /\ pc[w] = "fopen"
    /\ IF files[key[w]] = NoFile
       THEN Die /\ origin_fds' = 0 /\ UNCHANGED <<resolver_calls, stored>>
       ELSE /\ size' = [size EXCEPT ![w] = Len(files[key[w]])]
            /\ pc' = [pc EXCEPT ![w] = "fread"]
            /\ UNCHANGED <<hash_table, storage, freed, cache_users, md5b, files,
                           now, exited, key, cache_entry_ptr,
                           synchronize_local_copy, data_out, data, ret, buffer,
                           ntot, ncalls, free_pc, obsVars>>
    /\ UNCHANGED serverVars

\* The fread loop and fclose: *size_out bytes of the file as it is now, into
\* the local data_out; fread returning 0 before that many bytes is exit(1).
\* The caller's pointer `data` was passed by value and is not written.
CacheGet_Fread(w) ==
    /\ ~exited /\ pc[w] = "fread"
    /\ IF Len(files[key[w]]) < size[w]
       THEN Die /\ origin_fds' = 0 /\ UNCHANGED <<resolver_calls, stored>>
       ELSE /\ data_out' = [data_out EXCEPT ![w] = SubSeq(files[key[w]], 1, size[w])]
            /\ pc' = [pc EXCEPT ![w] = "release"]
            /\ UNCHANGED <<hash_table, storage, freed, cache_users, md5b, files,
                           now, exited, key, cache_entry_ptr,
                           synchronize_local_copy, size, data, ret, buffer, ntot,
                           ncalls, free_pc, obsVars>>
    /\ UNCHANGED serverVars

\* CacheGet_Release with the decrement of the entry's num_users left out.
CacheGet_Release_KeepEntryUser(w) ==
    /\ ~exited /\ pc[w] = "release"
    /\ cache_users' = cache_users - 1
    /\ ret' = [ret EXCEPT ![w] = 0]
    /\ pc' = [pc EXCEPT ![w] = "idle"]
    /\ key' = [key EXCEPT ![w] = NoKey]
    /\ cache_entry_ptr' = [cache_entry_ptr EXCEPT ![w] = NULL]
    /\ synchronize_local_copy' = [synchronize_local_copy EXCEPT ![w] = 0]
    /\ data_out' = [data_out EXCEPT ![w] = NullBuf]
    /\ buffer' = [buffer EXCEPT ![w] = NullBuf]
    /\ ntot' = [ntot EXCEPT ![w] = 0]
    /\ UNCHANGED <<hash_table, storage, freed, md5b, files, now, exited, size,
                   data, ncalls, free_pc, obsVars>>
    /\ UNCHANGED serverVars

\* Release the resource: sem_wait; entry num_users--; cache num_users--;
\* sem_post; return 0.
CacheGet_Release(w) ==
    /\ ~exited /\ pc[w] = "release"
    /\ storage' = [storage EXCEPT ![cache_entry_ptr[w]].num_users = @ - 1]
    /\ cache_users' = cache_users - 1
    /\ ret' = [ret EXCEPT ![w] = 0]
    /\ pc' = [pc EXCEPT ![w] = "idle"]
    \* the activation's locals are gone
    /\ key' = [key EXCEPT ![w] = NoKey]
    /\ cache_entry_ptr' = [cache_entry_ptr EXCEPT ![w] = NULL]
    /\ synchronize_local_copy' = [synchronize_local_copy EXCEPT ![w] = 0]
    /\ data_out' = [data_out EXCEPT ![w] = NullBuf]
    /\ buffer' = [buffer EXCEPT ![w] = NullBuf]
    /\ ntot' = [ntot EXCEPT ![w] = 0]
    /\ UNCHANGED <<hash_table, freed, md5b, files, now, exited, size, data,
                   ncalls, free_pc, obsVars>>
    /\ UNCHANGED serverVars

\* A thread inside cache_get touches a record (or the cache) that cache_free
\* has released: use after free.  The access either goes through on the old
\* contents (the actions above) or the process dies.
UseAfterFree(w) ==
    /\ ~exited /\ pc[w] \in {"loop", "resolved", "release"}
    /\ Dangling(w)
    /\ Die
    /\ origin_fds' = 0
    /\ UNCHANGED <<resolver_calls, stored>>
    /\ UNCHANGED serverVars

\* ------------------------------------------------------------ cache_free
CacheFree_Call ==
    /\ ~exited /\ free_pc = "idle"
    /\ free_pc' = "wait"
    /\ UNCHANGED <<cacheVars, threadVars, obsVars>>
    /\ UNCHANGED serverVars

\* One pass of the wait loop: sem_wait; num_users == 0 ? break : sleep(1).
CacheFree_Wait ==
    /\ ~exited /\ free_pc = "wait"
    /\ free_pc' = IF cache_users = 0 THEN "walk" ELSE "wait"
    /\ UNCHANGED <<cacheVars, threadVars, obsVars>>
    /\ UNCHANGED serverVars

\* Records in the order the bucket walk meets them.
RECURSIVE WalkOrder(_)
WalkOrder(b) ==
    IF b = NumBuckets THEN <<>> ELSE hash_table[b] \o WalkOrder(b + 1)

NotFreed(id) == id \notin freed

\* The walk over the buckets, one cache_entry_storage_free per step; after
\* the last record sem_destroy and free(cache).
CacheFree_Walk ==
    /\ ~exited /\ free_pc = "walk"
    /\ LET rest == SelectSeq(WalkOrder(0), NotFreed)
       IN  IF rest = <<>>
           THEN /\ free_pc' = "done"
                /\ UNCHANGED freed
           ELSE /\ freed' = freed \cup {Head(rest)}
                /\ UNCHANGED free_pc
    /\ UNCHANGED <<hash_table, storage, cache_users, md5b, files, now, exited,
                   threadVars, obsVars>>
    /\ UNCHANGED serverVars

\* ------------------------------------------------------------------ time
Tick ==
    /\ ~exited /\ now < MaxTime
    /\ now' = now + 1
    /\ UNCHANGED <<hash_table, storage, freed, cache_users, md5b, files, exited,
                   threadVars, free_pc, obsVars>>
    /\ UNCHANGED serverVars

\* ================================================ supervisor and workers
cacheSide == <<cacheVars, threadVars, free_pc, obsVars, http>>

\* response_send_error: the body of the error response is its reason phrase,
\* one token per status code here.
ReasonBody(status) == <<0 - status>>

\* ------------------------------------------------------------- http.c
\* http_message_header_search: index of the first header whose key is
\* strcmp-equal to key, 0 when there is none.
http_message_header_search(headers, k) ==
    IF \E i \in 1..Len(headers) : headers[i].key = k
    THEN CHOOSE i \in 1..Len(headers) :
            /\ headers[i].key = k
            /\ \A j \in 1..(i - 1) : headers[j].key # k
    ELSE 0

\* http_message_header_set_ adding a header whether or not one exists.
http_message_header_set_Append(headers, k, v, search) ==
    Append(headers, Header(k, v))

\* http_message_header_set_: with search, the first header of that key
\* gets the value; otherwise (or when there is none) a header is appended.
http_message_header_set_(headers, k, v, search) ==
    LET i == http_message_header_search(headers, k)
    IN  IF search = 1 /\ i # 0
        THEN [headers EXCEPT ![i].value = v]
        ELSE Append(headers, Header(k, v))

http_message_header_set(headers, k, v) == http_message_header_set_(headers, k, v, 1)

\* http_message_header_get returns NULL when no header has the key.
NoValue == "(null)"

\* http_message_header_get: value of the first header of that key.
http_message_header_get(headers, k) ==
    LET i == http_message_header_search(headers, k)
    IN  IF i = 0 THEN NoValue ELSE headers[i].value

\* http_message_header_remove: the header http_message_header_search finds
\* is taken out and the ones behind it shift down; nothing when none is found.
http_message_header_remove(headers, k) ==
    LET i == http_message_header_search(headers, k)
    IN  IF i = 0 THEN headers
        ELSE SubSeq(headers, 1, i - 1) \o SubSeq(headers, i + 1, Len(headers))

\* http_headers_parse: every "key: value" line of the header region is added
\* with http_message_header_set_(message, key, value, 0).
RECURSIVE http_headers_parse(_, _)
http_headers_parse(lines, headers) ==
    IF lines = <<>> THEN headers
    ELSE http_headers_parse(Tail(lines),
             http_message_header_set_(headers, Head(lines).key, Head(lines).value, 0))

Min(a, b) == IF a < b THEN a ELSE b

\* http_message_recv, the loop that reads the header region.  message_size
\* is the capacity of the buffer, message_len the bytes received.  Every
\* pass: give up when the capacity exceeds HTTP_MESSAGE_MAX_HEADER_SIZE, grow
\* the buffer by MESSAGE_CHUNK_SIZE, poll (0: timeout), recv of at most
\* MESSAGE_CHUNK_SIZE bytes (0: peer closed), look for the blank line.
RECURSIVE RecvLoop(_, _, _)
RecvLoop(message_size, message_len, b) ==
    IF message_size > HTTP_MESSAGE_MAX_HEADER_SIZE THEN "too_large"
    ELSE LET avail == b.sent - message_len
             bytes_read == IF b.pace = "burst" THEN Min(avail, MESSAGE_CHUNK_SIZE)
                           ELSE 1
         IN  IF avail = 0 THEN b.last
             ELSE IF message_len + bytes_read >= b.hdr_len THEN "complete"
             ELSE RecvLoop(message_size + MESSAGE_CHUNK_SIZE,
                           message_len + bytes_read, b)

\* http_message_recv: "complete" when a message is returned, otherwise the
\* reason NULL is returned for.
http_message_recv(b) == RecvLoop(0, 0, b)

\* http_message_recv after the loop: the headers are parsed, and a message
\* without Content-Length gets "Content-Length: 0".
RecvHeaders(lines) ==
    LET h == http_headers_parse(lines, <<>>)
    IN  IF http_message_header_search(h, "Content-Length") # 0 THEN h
        ELSE http_message_header_set(h, "Content-Length", "0")

\* ------------------------------------------------------------- server.c
\* The address the client of connection c connects from.
ClientIP(c) == "10.0.0." \o ToString(c)

Handling == {"recv", "blocklist", "fetch", "send"}
Running  == Handling \cup {"returned"}

\* server_start up to the accept loop: is_running = 1, socket, bind, listen.
server_start(v) ==
    /\ sup_pc = "init"
    /\ verbose' = v
    /\ serverfd' = "listening"
    /\ sup_pc' = "test"
    /\ UNCHANGED <<stop_server, signalled, blocklist, workerVars, cacheSide>>

\* server_start: `while (!stop_server)` and the waitpid(WNOHANG) loop that
\* reaps the children that have terminated.
server_loop_test ==
    /\ sup_pc = "test"
    /\ sup_pc' = IF stop_server = 1 THEN "close" ELSE "accept"
    /\ hc_pc' = [c \in Clients |->
                    IF stop_server = 0 /\ hc_pc[c] \in {"exited", "killed"}
                    THEN "reaped" ELSE hc_pc[c]]
    /\ UNCHANGED <<request, response, client_recv, origin_requests, conn_ip,
                   client_in, origin_conn, delivered>>
    /\ UNCHANGED <<stop_server, verbose, signalled, serverfd, blocklist, cacheSide>>

\* server_start: accept returns the next connection (connections are
\* numbered in the order they are accepted) and fork; the child fills
\* connection->ip only `if (server.verbose)` and goes on to handle_client,
\* the parent closes its copy of the fd and loops.
server_accept(c) ==
    /\ sup_pc = "accept"
    /\ hc_pc[c] = "none"
    /\ \A d \in Clients : d < c => hc_pc[d] # "none"
    /\ hc_pc' = [hc_pc EXCEPT ![c] = "recv"]
    /\ conn_ip' = [conn_ip EXCEPT ![c] = IF verbose = 1 THEN ClientIP(c) ELSE ""]
    /\ sup_pc' = "test"
    /\ UNCHANGED <<request, response, client_recv, origin_requests, client_in,
                   origin_conn, delivered>>
    /\ UNCHANGED <<stop_server, verbose, signalled, serverfd, blocklist, cacheSide>>

\* SIGINT to the supervisor: the handler calls proxy_stop, which calls
\* server_stop: stop_server = 1.  When the supervisor is past the loop test
\* the accept call either goes on blocking (the signal came before the call
\* was entered, or the call is restarted) or fails with EINTR, which
\* server_start answers with "Failed to accept connection" and exit(1).
server_stop(how) ==
    /\ sup_pc \in {"test", "accept"}
    /\ stop_server = 0
    /\ stop_server' = 1
    /\ sup_pc' = IF sup_pc = "accept" /\ how = "eintr" THEN "exit1" ELSE sup_pc
    /\ UNCHANGED <<verbose, signalled, serverfd, blocklist, workerVars, cacheSide>>

\* server_start after the loop: close(server.serverfd).
server_close_listen ==
    /\ sup_pc = "close"
    /\ serverfd' = "closed"
    /\ sup_pc' = "kill"
    /\ UNCHANGED <<stop_server, verbose, signalled, blocklist, workerVars, cacheSide>>

\* server_start after the loop: kill(-1, SIGINT), "tell all child processes
\* to exit": every child that has not terminated is sent the signal.
server_kill ==
    /\ sup_pc = "kill"
    /\ signalled' = {c \in Clients : hc_pc[c] \in Running}
    /\ sup_pc' = "wait"
    /\ UNCHANGED <<stop_server, verbose, serverfd, blocklist, workerVars, cacheSide>>

\* server_wait leaving its loop while children are still running.
server_wait_NoWait ==
    /\ sup_pc = "wait"
    /\ hc_pc' = [c \in Clients |->
                    IF hc_pc[c] \in {"exited", "killed"} THEN "reaped" ELSE hc_pc[c]]
    /\ sup_pc' = "stopped"
    /\ UNCHANGED <<request, response, client_recv, origin_requests, conn_ip,
                   client_in, origin_conn, delivered>>
    /\ UNCHANGED <<stop_server, verbose, signalled, serverfd, blocklist, cacheSide>>

\* server_start after the loop: `while (waitpid(-1, &status, WNOHANG) >= 0)`
\* spins until no child is left (ECHILD), then is_running = 0.
server_wait ==
    /\ sup_pc = "wait"
    /\ \A c \in Clients : hc_pc[c] \notin Running
    /\ hc_pc' = [c \in Clients |->
                    IF hc_pc[c] \in {"exited", "killed"} THEN "reaped" ELSE hc_pc[c]]
    /\ sup_pc' = "stopped"
    /\ UNCHANGED <<request, response, client_recv, origin_requests, conn_ip,
                   client_in, origin_conn, delivered>>
    /\ UNCHANGED <<stop_server, verbose, signalled, serverfd, blocklist, cacheSide>>

\* proxy_start after server_start: cache_free(cache).  The cache of the
\* supervisor holds no record and has no user (the workers are other
\* processes, and handle_client does not call cache_get), so cache_free runs
\* through without waiting.
proxy_cache_free ==
    /\ sup_pc = "stopped"
    /\ ~exited /\ free_pc = "idle" /\ cache_users = 0
    /\ free_pc' = "done"
    /\ sup_pc' = "cache_freed"
    /\ UNCHANGED <<cacheVars, threadVars, obsVars, http>>
    /\ UNCHANGED <<stop_server, verbose, signalled, serverfd, blocklist, workerVars>>

\* proxy_start: blocklist_free(blocklist), then proxy_running = 0.
proxy_blocklist_free ==
    /\ sup_pc = "cache_freed"
    /\ blocklist' = "freed"
    /\ sup_pc' = "done"
    /\ UNCHANGED <<stop_server, verbose, signalled, serverfd, workerVars, cacheSide>>

\* ------------------------------------------------------------- proxy.c
\* request_get_key: host + uri of a cacheable request, the empty string
\* otherwise.
request_get_key(r) == IF r.cacheable THEN r.target ELSE NoKey

\* handle_client: http_message_recv and request_parse on what the client
\* does (b).  No message (timeout, peer closed, buffer over the limit) or a
\* request line that does not parse: 400 Bad Request and return.
HC_Recv(c, b, parsed, r) ==
    /\ hc_pc[c] = "recv"
    /\ client_in' = [client_in EXCEPT ![c] = b]
    /\ IF http_message_recv(b) = "complete" /\ parsed
       THEN /\ request' = [request EXCEPT ![c] =
                              [r EXCEPT !.headers = RecvHeaders(r.headers)]]
            /\ hc_pc' = [hc_pc EXCEPT ![c] = "blocklist"]
            /\ UNCHANGED client_recv
       ELSE /\ client_recv' = [client_recv EXCEPT ![c] =
                                  [status |-> 400, body |-> ReasonBody(400)]]
            /\ hc_pc' = [hc_pc EXCEPT ![c] = "returned"]
            /\ UNCHANGED request
    /\ UNCHANGED <<response, origin_requests, conn_ip, origin_conn, delivered,
                   supVars, cacheSide>>

\* handle_client, the rewriting of the request headers: Connection: close,
\* Forwarded: connection->ip, Via, and one http_message_header_remove for
\* each of the three proxy headers.
ProxyHeaders(headers, ip) ==
    LET h1 == http_message_header_set(headers, "Connection", "close")
        h2 == http_message_header_set(h1, "Forwarded", ip)
        h3 == http_message_header_set(h2, "Via", "1.1 MatthewTetaProxy")
        h4 == http_message_header_remove(h3, "Proxy-Connection")
        h5 == http_message_header_remove(h4, "Proxy-Authorization")
    IN  http_message_header_remove(h5, "Proxy-Authenticate")

\* HC_Blocklist with the blocklist answer sent and the request served
\* nevertheless.
HC_Blocklist_NoReturn(c) ==
    /\ hc_pc[c] = "blocklist"
    /\ IF request[c].blocked
       THEN client_recv' = [client_recv EXCEPT ![c] =
                               [status |-> 403, body |-> ReasonBody(403)]]
       ELSE UNCHANGED client_recv
    /\ request' = [request EXCEPT ![c].headers = ProxyHeaders(@, conn_ip[c])]
    /\ hc_pc' = [hc_pc EXCEPT ![c] = "fetch"]
    /\ UNCHANGED <<response, origin_requests, conn_ip, client_in, origin_conn,
                   delivered, supVars, cacheSide>>

\* handle_client: blocklist_check (403 Forbidden and return on a hit), then
\* the header rewriting and request_get_key.
HC_Blocklist(c) ==
    /\ hc_pc[c] = "blocklist"
    /\ IF request[c].blocked
       THEN /\ client_recv' = [client_recv EXCEPT ![c] =
                                  [status |-> 403, body |-> ReasonBody(403)]]
            /\ hc_pc' = [hc_pc EXCEPT ![c] = "returned"]
            /\ UNCHANGED request
       ELSE /\ request' = [request EXCEPT ![c].headers =
                              ProxyHeaders(@, conn_ip[c])]
            /\ hc_pc' = [hc_pc EXCEPT ![c] = "fetch"]
            /\ UNCHANGED client_recv
    /\ UNCHANGED <<response, origin_requests, conn_ip, client_in, origin_conn,
                   delivered, supVars, cacheSide>>

\* response_fetch outcomes: getaddrinfo fails in connect_to_hostname; the
\* socket is made and connect fails (connect_to_hostname closes it); the
\* request is sent and response_recv returns NULL; the response arrives.
FetchOutcomes == {"resolve_failed", "connect_failed", "recv_null", "received"}

\* handle_client: `if (1)`: whatever the key, the request is patched
\* through with response_fetch (connect_to_hostname, request_send, which
\* sets the Host header, response_recv, close_connection); NULL is answered
\* 404 Not Found.
HC_Fetch(c, outcome) ==
    /\ hc_pc[c] = "fetch"
    /\ LET t == request[c].target
           connected == outcome \in {"recv_null", "received"}
       IN  /\ origin_conn' = [origin_conn EXCEPT ![c] =
                 IF outcome = "resolve_failed" THEN @
                 ELSE [opened |-> @.opened + 1, closed |-> @.closed + 1]]
           /\ origin_requests' =
                 IF connected THEN [origin_requests EXCEPT ![t] = @ + 1]
                 ELSE origin_requests
           /\ request' = IF connected
                         THEN [request EXCEPT ![c].headers =
                                  http_message_header_set(@, "Host", t)]
                         ELSE request
           /\ delivered' = IF connected
                           THEN [delivered EXCEPT ![c] =
                                    http_message_header_set(request[c].headers, "Host", t)]
                           ELSE delivered
           /\ IF outcome = "received"
              THEN /\ response' = [response EXCEPT ![c] =
                                      OriginResponse(origin_requests[t] + 1)]
                   /\ hc_pc' = [hc_pc EXCEPT ![c] = "send"]
                   /\ UNCHANGED client_recv
              ELSE /\ client_recv' = [client_recv EXCEPT ![c] =
                                         [status |-> 404, body |-> ReasonBody(404)]]
                   /\ hc_pc' = [hc_pc EXCEPT ![c] = "returned"]
                   /\ UNCHANGED response
    /\ UNCHANGED <<conn_ip, client_in, supVars, cacheSide>>

\* handle_client: response_send of the fetched response, then return.
HC_Send(c) ==
    /\ hc_pc[c] = "send"
    /\ client_recv' = [client_recv EXCEPT ![c] =
                          [status |-> 200, body |-> response[c]]]
    /\ hc_pc' = [hc_pc EXCEPT ![c] = "returned"]
    /\ UNCHANGED <<request, response, origin_requests, conn_ip, client_in,
                   origin_conn, delivered, supVars, cacheSide>>

\* server_start, child: close_connection(connection); exit(0).  The memory
\* of the process goes with it.
worker_exit(c) ==
    /\ hc_pc[c] = "returned"
    /\ hc_pc' = [hc_pc EXCEPT ![c] = "exited"]
    /\ request' = [request EXCEPT ![c] = NoRequest]
    /\ response' = [response EXCEPT ![c] = NullBuf]
    /\ conn_ip' = [conn_ip EXCEPT ![c] = ""]
    /\ UNCHANGED <<client_recv, origin_requests, client_in, origin_conn,
                   delivered, supVars, cacheSide>>

\* The SIGINT of server_start's kill(-1, SIGINT) reaches a child that has
\* not terminated: the child ends where it is.
worker_sigint(c) ==
    /\ c \in signalled
    /\ hc_pc[c] \in Running
    /\ hc_pc' = [hc_pc EXCEPT ![c] = "killed"]
    /\ request' = [request EXCEPT ![c] = NoRequest]
    /\ response' = [response EXCEPT ![c] = NullBuf]
    /\ conn_ip' = [conn_ip EXCEPT ![c] = ""]
    /\ UNCHANGED <<client_recv, origin_requests, client_in, origin_conn,
                   delivered, supVars, cacheSide>>

\* The steps of the supervisor, started with one of the verbose settings V.
Supervisor(V) ==
    \/ \E v \in V : server_start(v)
    \/ server_loop_test
    \/ \E c \in Clients : server_accept(c)
    \/ \E how \in {"blocked", "eintr"} : server_stop(how)
    \/ server_close_listen
    \/ server_kill
    \/ server_wait
    \/ proxy_cache_free
    \/ proxy_blocklist_free

\* The steps of the worker of connection c after HC_Recv.
Worker(c) ==
    \/ HC_Blocklist(c)
    \/ \E o \in FetchOutcomes : HC_Fetch(c, o)
    \/ HC_Send(c)
    \/ worker_exit(c)

\* The workers do not call cache_get: the hash of the keys plays no part.
InitServer == Init /\ md5b = [k \in Keys |-> 0]

\* The requests of the clients of SpecServer: a short request for one
\* target, without header lines, sent at once, to a host not on the blocklist.
ServerRequests == {r \in PlainRequests : r.target = "a" /\ ~r.blocked}

NextServer ==
    \/ Supervisor({0})
    \/ \E c \in Clients, b \in PlainBehaviours, r \in ServerRequests :
          HC_Recv(c, b, TRUE, r)
    \/ \E c \in Clients, b \in PlainBehaviours : HC_Recv(c, b, FALSE, NoRequest)
    \/ \E c \in Clients : Worker(c)
    \/ \E c \in Clients : worker_sigint(c)

\* The proxy serving connections, one forked worker per accepted
\* connection, and its shutdown.
SpecServer == InitServer /\ [][NextServer]_vars

\* The supervisor up to the fork of the worker of the first connection.
FirstAccept ==
    \/ \E v \in {0, 1} : server_start(v)
    \/ server_loop_test
    \/ server_accept(1)

NextWorker ==
    \/ FirstAccept
    \/ \E b \in ClientBehaviours, r \in Requests : HC_Recv(1, b, TRUE, r)
    \/ \E b \in ClientBehaviours : HC_Recv(1, b, FALSE, NoRequest)
    \/ Worker(1)

\* The proxy serving its first connection, whatever the client does on it.
SpecWorker == InitServer /\ [][NextWorker]_vars

\* To the cache a request_send that fails is a connect that fails: both
\* leave the resolver without a cache_set.  They differ in origin_fds only,
\* which SpecResolver observes.
CacheOutcomes == ResolverOutcomes \ {"send_failed"}

Next ==
    \/ \E w \in Workers : CacheGet_NullKey(w)
    \/ \E w \in Workers, k \in Keys : CacheGet_Lookup(w, k)
    \/ \E w \in Workers : CacheGet_Loop(w)
    \/ \E w \in Workers, o \in CacheOutcomes : proxy_cache_miss_resolver(w, o)
    \/ \E w \in Workers : cache_set_open(w)
    \/ \E w \in Workers, n \in 1..BodyLen : cache_set_fwrite(w, n)
    \/ \E w \in Workers : CacheGet_MarkOK(w)
    \/ \E w \in Workers : CacheGet_Fopen(w)
    \/ \E w \in Workers : CacheGet_Fread(w)
    \/ \E w \in Workers : CacheGet_Release(w)
    \/ Tick

\* The cache in operation: threads call cache_get, cache_free is not called.
Spec == Init /\ [][Next]_vars

\* Outcomes with which the resolver returns to cache_get.
ReturningOutcomes == {"connect_failed", "received"}

NextLive ==
    \/ \E w \in Workers : CacheGet_NullKey(w)
    \/ \E w \in Workers, k \in Keys : CacheGet_Lookup(w, k)
    \/ \E w \in Workers : CacheGet_Loop(w)
    \/ \E w \in Workers, o \in ReturningOutcomes : proxy_cache_miss_resolver(w, o)
    \/ \E w \in Workers : cache_set_open(w)
    \/ \E w \in Workers, n \in 1..BodyLen : cache_set_fwrite(w, n)
    \/ \E w \in Workers : CacheGet_MarkOK(w)
    \/ \E w \in Workers : CacheGet_Fopen(w)
    \/ \E w \in Workers : CacheGet_Fread(w)
    \/ \E w \in Workers : CacheGet_Release(w)
    \/ Tick

\* Every step of a thread inside cache_get: a pass of the loop (sleep(1)
\* ends, sem_wait is granted), the resolver, the file operations, the
\* release.
Proceed(w) ==
    \/ CacheGet_Loop(w)
    \/ \E o \in ReturningOutcomes : proxy_cache_miss_resolver(w, o)
    \/ cache_set_open(w)
    \/ \E n \in 1..BodyLen : cache_set_fwrite(w, n)
    \/ CacheGet_MarkOK(w)
    \/ CacheGet_Fopen(w)
    \/ CacheGet_Fread(w)
    \/ CacheGet_Release(w)

\* Threads are scheduled fairly: a thread inside cache_get that can take
\* its next step takes it, and each step made by the resolver and the file
\* system returns.
Fairness == \A w \in Workers : WF_vars(Proceed(w))

\* The cache in operation under fair scheduling, every resolver invocation
\* returning.
SpecLive == Init /\ [][NextLive]_vars /\ Fairness

NextResolver ==
    \/ Next
    \/ \E w \in Workers : proxy_cache_miss_resolver(w, "send_failed")

\* The cache in operation, every outcome of the resolver included.
SpecResolver == Init /\ [][NextResolver]_vars

\* Operation followed by shutdown: cache_free is called at some point, while
\* cache_get calls may still be in flight; no cache_get is started after it.
NextShutdown ==
    \/ Next
    \/ \E w \in Workers : UseAfterFree(w)
    \/ CacheFree_Call
    \/ CacheFree_Wait
    \/ CacheFree_Walk

SpecShutdown == Init /\ [][NextShutdown]_vars

\* ======================================================================
\* http.c: the header collection of one message
\* ======================================================================
MaxLines == 3            \* header lines of one received header region
MaxOps   == 2            \* header operations applied to one message
MaxForks == 3            \* connections the fork-per-connection supervisor accepts
MaxPids  == 4            \* children in the list handed to pid_list_reap

\* A header line of the region as received, one string per character, and
\* the lines peers send: well formed ones (with and without the blank after
\* the colon), a key with nothing behind the colon, and a line without colon.
HeaderLineInputs ==
    { <<"A", ":", " ", "x">>, <<"A", ":", " ", "y">>, <<"B", ":", " ", "x">>,
      <<"B", ":", "y">>, <<"A", ":">>, <<"A">> }

RECURSIVE SeqsUpTo(_, _)
SeqsUpTo(S, n) ==
    IF n = 0 THEN {<<>>}
    ELSE LET shorter == SeqsUpTo(S, n - 1)
         IN  shorter \cup {Append(q, x) : q \in shorter, x \in S}

\* The header lines of a region, in order (strtok_r(.., "\r\n") yields them).
HeaderRegions == SeqsUpTo(HeaderLineInputs, MaxLines)

RECURSIVE Concat(_)
Concat(chars) == IF chars = <<>> THEN "" ELSE Head(chars) \o Concat(Tail(chars))

\* strtok_r(line_copy, ":"): the delimiters in front are skipped, the token
\* runs up to the next delimiter; NULL (<<>> here) when nothing is left.
RECURSIVE SkipDelims(_)
SkipDelims(chars) ==
    IF chars # <<>> /\ Head(chars) = ":" THEN SkipDelims(Tail(chars)) ELSE chars

RECURSIVE TokenLen(_)
TokenLen(chars) ==
    IF chars = <<>> \/ Head(chars) = ":" THEN 0 ELSE 1 + TokenLen(Tail(chars))

\* while (isspace(*val)) val++;
RECURSIVE SkipSpace(_)
SkipSpace(chars) ==
    IF chars # <<>> /\ Head(chars) = " " THEN SkipSpace(Tail(chars)) ELSE chars

\* One line of http_headers_parse: key = strtok_r(line_copy, ":"),
\* val = strtok_r(NULL, ""), which is NULL when no character follows the
\* token and its delimiter.  val_null tells that `*val` reads through NULL.
SplitLine(line) ==
    LET s    == SkipDelims(line)
        n    == TokenLen(s)
        rest == SubSeq(s, n + 2, Len(s))
    IN  [key      |-> Concat(SubSeq(s, 1, n)),
         val_null |-> rest = <<>>,
         value    |-> Concat(SkipSpace(rest))]

\* `isspace(*val)` with val == NULL is a read through the null pointer,
\* which comes before the test of key and val: the process gets SIGSEGV.
NullReadOutcomes == {"SIGSEGV"}

\* Number of lines http_headers_parse gets through before a read through NULL.
RECURSIVE GoodPrefix(_)
GoodPrefix(region) ==
    IF region = <<>> \/ SplitLine(Head(region)).val_null THEN 0
    ELSE 1 + GoodPrefix(Tail(region))

SplitLines(region) ==
    [i \in 1..Len(region) |-> Header(SplitLine(region[i]).key,
                                     SplitLine(region[i]).value)]

\* http_headers_parse on a received region.
Msg_Parse(region) ==
    /\ http.op = "none"
    /\ LET n == GoodPrefix(region)
       IN  \E outcome \in NullReadOutcomes :
             http' = [op      |-> "parse",
                      region  |-> region,
                      headers |-> http_headers_parse(SplitLines(SubSeq(region, 1, n)), <<>>),
                      crashed |-> IF n < Len(region) THEN outcome ELSE "no",
                      nops    |-> 0,
                      k       |-> NoValue,
                      v       |-> NoValue]
    /\ UNCHANGED <<cacheVars, threadVars, free_pc, obsVars, workerVars, supVars>>

HeaderKeys   == {"A", "B"}
HeaderValues == {"x", "y"}

\* A message whose headers can be operated on.
Parsed == http.op \in {"parse", "set", "remove"} /\ http.crashed = "no"

\* http_message_header_set(message, k, v)
Msg_Set(k, v) ==
    /\ Parsed /\ http.nops < MaxOps
    /\ http' = [http EXCEPT !.op = "set", !.k = k, !.v = v, !.nops = @ + 1,
                            !.headers = http_message_header_set(@, k, v)]
    /\ UNCHANGED <<cacheVars, threadVars, free_pc, obsVars, workerVars, supVars>>

\* http_message_header_remove(message, k)
Msg_Remove(k) ==
    /\ Parsed /\ http.nops < MaxOps
    /\ http' = [http EXCEPT !.op = "remove", !.k = k, !.v = NoValue, !.nops = @ + 1,
                            !.headers = http_message_header_remove(@, k)]
    /\ UNCHANGED <<cacheVars, threadVars, free_pc, obsVars, workerVars, supVars>>

NextHeaders ==
    \/ \E region \in HeaderRegions : Msg_Parse(region)
    \/ \E k \in HeaderKeys, v \in HeaderValues : Msg_Set(k, v)
    \/ \E k \in HeaderKeys : Msg_Remove(k)

SpecHeaders == InitServer /\ [][NextHeaders]_vars

\* ======================================================================
\* http.c: http_message_recv, step by step
\* ======================================================================
\* What the peer of the connection does: it sends `total` bytes, of which
\* the first hdr_len are the header region (request or status line, header
\* lines, blank line) when it gets that far; clen is the value of its
\* Content-Length line (NoValue: it sends none); with pace "burst" every
\* byte it sends is in the socket before the first read, with "trickle" a
\* read sees one byte; after the last byte it stays silent ("stall") or
\* closes ("closed").
ContentLengths == {NoValue, "0", "2", "1500"}

\* atoi of a Content-Length value.
atoi(str) ==
    CASE str = "2" -> 2
      [] str = "1500" -> 1500
      [] OTHER -> 0

PeerTotals(h, c) ==
    {0, h - 1, h, h + 1} \cup {h + atoi(c) + d : d \in {-1, 0, 1}}

PeerPaces(h, c) ==
    IF h < MESSAGE_CHUNK_SIZE /\ atoi(c) < MESSAGE_CHUNK_SIZE
    THEN {"burst", "trickle"} ELSE {"burst"}

PeerBehaviours ==
    UNION { { [hdr_len |-> h, clen |-> c, total |-> t, pace |-> p, last |-> l] :
                t \in PeerTotals(h, c), p \in PeerPaces(h, c),
                l \in {"stall", "closed"} } :
            h \in HeaderSizes, c \in ContentLengths }

\* Bytes of the peer not yet read, and what one recv of at most len bytes
\* returns when some are there.
Avail == http.peer.total - http.message_len
BytesRead(len) == IF http.peer.pace = "burst" THEN Min(Avail, len) ELSE 1

\* http_message_recv returning NULL for the given reason, or the message.
Recv_Return(result) == [http EXCEPT !.pc = "returned", !.result = result]

\* http_message_recv(connection): http_message_create, no byte read yet.
Recv_Call(b) ==
    /\ http.op = "none"
    /\ http' = [op |-> "recv", pc |-> "test", peer |-> b, result |-> "none",
                message_size |-> 0, message_len |-> 0, header_len |-> 0,
                body_len |-> 0, read_remaining |-> 0, polled |-> FALSE,
                nrecv |-> 0]
    /\ UNCHANGED <<cacheVars, threadVars, free_pc, obsVars, workerVars, supVars>>

\* Head of the header loop: the capacity test, then the buffer grows by
\* MESSAGE_CHUNK_SIZE.
Recv_Test ==
    /\ http.op = "recv" /\ http.pc = "test"
    /\ http' = IF http.message_size > HTTP_MESSAGE_MAX_HEADER_SIZE
               THEN Recv_Return("too_large")
               ELSE [http EXCEPT !.pc = "poll",
                                 !.message_size = @ + MESSAGE_CHUNK_SIZE]
    /\ UNCHANGED <<cacheVars, threadVars, free_pc, obsVars, workerVars, supVars>>

\* poll(&fds, 1, KEEP_ALIVE_TIMEOUT_MS): readable when bytes are there or the
\* peer has closed, 0 after the timeout when the peer stays silent.
Recv_Poll ==
    /\ http.op = "recv" /\ http.pc = "poll"
    /\ http' = IF Avail = 0 /\ http.peer.last = "stall"
               THEN Recv_Return("timeout")
               ELSE [http EXCEPT !.pc = "recv", !.polled = TRUE]
    /\ UNCHANGED <<cacheVars, threadVars, free_pc, obsVars, workerVars, supVars>>

\* recv of at most MESSAGE_CHUNK_SIZE bytes in the header loop, then the
\* search of the blank line (strstr): it is found once hdr_len bytes are in.
Recv_Header ==
    /\ http.op = "recv" /\ http.pc = "recv"
    /\ http' = IF Avail = 0
               THEN [Recv_Return("closed") EXCEPT !.polled = FALSE, !.nrecv = @ + 1]
               ELSE LET len == http.message_len + BytesRead(MESSAGE_CHUNK_SIZE)
                    IN  [http EXCEPT !.message_len = len,
                                     !.polled = FALSE,
                                     !.nrecv = @ + 1,
                                     !.header_len = IF len >= http.peer.hdr_len
                                                    THEN http.peer.hdr_len ELSE 0,
                                     !.pc = IF len >= http.peer.hdr_len
                                            THEN "parse" ELSE "test"]
    /\ UNCHANGED <<cacheVars, threadVars, free_pc, obsVars, workerVars, supVars>>

\* After the header loop: http_headers_parse, body_len from Content-Length
\* (0 and "Content-Length: 0" when there is none), and only for
\* body_len > 0 the test of read_remaining.
Recv_Parse ==
    /\ http.op = "recv" /\ http.pc = "parse"
    /\ LET body_len       == atoi(http.peer.clen)
           read_remaining == body_len + http.header_len - http.message_len
       IN  http' = IF body_len > 0
                   THEN IF read_remaining < 0
                        THEN [Recv_Return("body_too_long") EXCEPT !.body_len = body_len]
                        ELSE IF read_remaining = 0
                        THEN [Recv_Return("message") EXCEPT !.body_len = body_len]
                        ELSE [http EXCEPT !.pc = "body", !.body_len = body_len,
                                          !.read_remaining = read_remaining]
                   ELSE Recv_Return("message")
    /\ UNCHANGED <<cacheVars, threadVars, free_pc, obsVars, workerVars, supVars>>

\* One pass of `while (read_remaining)`: recv of min(MESSAGE_CHUNK_SIZE,
\* read_remaining) bytes, with no poll in front of it.  With no byte there
\* and a silent peer the recv does not return.
Recv_Body ==
    /\ http.op = "recv" /\ http.pc = "body"
    /\ http' = IF Avail = 0
               THEN IF http.peer.last = "closed"
                    THEN [Recv_Return("closed") EXCEPT !.nrecv = @ + 1]
                    ELSE [http EXCEPT !.pc = "blocked", !.nrecv = @ + 1]
               ELSE LET bytes_read == BytesRead(Min(MESSAGE_CHUNK_SIZE,
                                                    http.read_remaining))
                    IN  [http EXCEPT !.message_len = @ + bytes_read,
                                     !.read_remaining = @ - bytes_read,
                                     !.nrecv = @ + 1,
                                     !.pc = IF http.read_remaining = bytes_read
                                            THEN "returned" ELSE "body",
                                     !.result = IF http.read_remaining = bytes_read
                                                THEN "message" ELSE "none"]
    /\ UNCHANGED <<cacheVars, threadVars, free_pc, obsVars, workerVars, supVars>>

NextRecv ==
    \/ \E b \in PeerBehaviours : Recv_Call(b)
    \/ Recv_Test
    \/ Recv_Poll
    \/ Recv_Header
    \/ Recv_Parse
    \/ Recv_Body

SpecRecv == InitServer /\ [][NextRecv]_vars

\* ======================================================================
\* http.c: http_message_send, and send_to_connection under it
\* ======================================================================
\* The two texts of send_to_connection: the one of server.c and the one of
\* connection.c.
SendRevisions == {"server.c", "connection.c"}

\* Content-Length of the messages sent (NoValue: the header is not set) and
\* their Content-Length header list.
SentLengths == {NoValue, "0", "2"}
LengthHeader(clen) ==
    IF clen = NoValue THEN <<>> ELSE <<Header("Content-Length", clen)>>

\* The calls of send_to_connection http_message_send makes, in order: the
\* header line (strlen of "HTTP/1.1 200 OK\r\n"), one "key: value\r\n" per
\* header (http_headers_send), the blank line, and the body when
\* body_len > 0.
Pieces(headers, body_len) ==
    <<[kind |-> "line", len |-> 17]>>
    \o [i \in 1..Len(headers) |-> [kind |-> "header", len |-> 19]]
    \o <<[kind |-> "blank", len |-> 2]>>
    \o (IF body_len > 0 THEN <<[kind |-> "body", len |-> body_len]>> ELSE <<>>)

\* http_message_send(message, connection): body_len from the Content-Length
\* header, which is set to "0" when the message has none.
HttpSend_Call(rev, clen) ==
    /\ http.op = "none"
    /\ LET body_length == http_message_header_get(LengthHeader(clen), "Content-Length")
           headers == IF body_length # NoValue THEN LengthHeader(clen)
                      ELSE http_message_header_set(LengthHeader(clen),
                                                   "Content-Length", "0")
           body_len == IF body_length # NoValue THEN atoi(body_length) ELSE 0
       IN  http' = [op |-> "send", rev |-> rev, pc |-> "next",
                    headers |-> headers, body_len |-> body_len,
                    pieces |-> Pieces(headers, body_len), i |-> 0,
                    msg_len |-> 0, bytes_sent |-> 0, sent |-> <<>>, rv |-> 0,
                    wire |-> [kind \in {"line", "header", "blank", "body"} |-> 0],
                    ret |-> 0]
    /\ UNCHANGED <<cacheVars, threadVars, free_pc, obsVars, workerVars, supVars>>

\* send_to_connection(connection, msg, msg_len) is entered for the next
\* piece; msg_len == 0 returns -1 at once.
Send_Call ==
    /\ http.op = "send" /\ http.pc = "next" /\ http.i < Len(http.pieces)
    /\ LET msg_len == http.pieces[http.i + 1].len
       IN  http' = [http EXCEPT !.i = @ + 1, !.msg_len = msg_len,
                                !.bytes_sent = 0, !.sent = <<>>,
                                !.rv = IF msg_len = 0 THEN -1 ELSE 0,
                                !.pc = IF msg_len = 0 THEN "next" ELSE "loop"]
    /\ UNCHANGED <<cacheVars, threadVars, free_pc, obsVars, workerVars, supVars>>

\* What one send(fd, msg + bytes_sent, remaining, 0) can return: -1, 0, a
\* part of the bytes, all of them.
SendResults(remaining) == {-1, 0, remaining} \cup {remaining \div 2}

\* One pass of `while (bytes_sent < msg_len)`.  sent < 0 returns -1; on
\* sent == 0 server.c prints and goes on with the loop, connection.c breaks
\* and returns bytes_sent; otherwise bytes_sent += sent.
Send_Step ==
    /\ http.op = "send" /\ http.pc = "loop"
    /\ \E sent \in SendResults(http.msg_len - http.bytes_sent) :
       LET kind == http.pieces[http.i].kind
       IN  http' =
             IF sent < 0
             THEN [http EXCEPT !.sent = <<sent>>, !.rv = -1, !.pc = "next"]
             ELSE IF sent = 0
             THEN IF http.rev = "connection.c"
                  THEN [http EXCEPT !.sent = <<sent>>, !.rv = http.bytes_sent,
                                    !.pc = "next"]
                  ELSE [http EXCEPT !.sent = <<sent>>]
             ELSE [http EXCEPT !.sent = <<sent>>,
                               !.bytes_sent = @ + sent,
                               !.wire[kind] = @ + sent,
                               !.rv = IF http.bytes_sent + sent < http.msg_len
                                      THEN 0 ELSE http.bytes_sent + sent,
                               !.pc = IF http.bytes_sent + sent < http.msg_len
                                      THEN "loop" ELSE "next"]
    /\ UNCHANGED <<cacheVars, threadVars, free_pc, obsVars, workerVars, supVars>>

\* http_message_send after the last piece: `return 0;`, whatever the calls
\* of send_to_connection returned.
HttpSend_Return ==
    /\ http.op = "send" /\ http.pc = "next" /\ http.i = Len(http.pieces)
    /\ http' = [http EXCEPT !.pc = "done", !.ret = 0]
    /\ UNCHANGED <<cacheVars, threadVars, free_pc, obsVars, workerVars, supVars>>

NextSend ==
    \/ \E rev \in SendRevisions, clen \in SentLengths : HttpSend_Call(rev, clen)
    \/ Send_Call
    \/ Send_Step
    \/ HttpSend_Return

SpecSend == InitServer /\ [][NextSend]_vars

\* ======================================================================
\* http.c: a message built from scratch, sent and received again
\* ======================================================================
\* Strings are kept as sequences of characters here, a name such as
\* "Content-Length" counting as one, so that sprintf, strstr and strtok_r
\* can be followed character by character.
CRLF == <<"\r", "\n">>

\* Header lines given to http_message_set_header_line: with the "\r\n"
\* response_send and request_send put at its end, and without.
ScratchHeaderLines == { <<"G">> \o CRLF, <<"G">> }

\* Values given to http_message_header_set: plain, with a blank in front,
\* with a colon inside, empty.
ScratchValues == { <<"x">>, <<" ", "x">>, <<"x", ":", "y">>, <<>> }

\* Bodies given to http_message_set_body.
ScratchBodies == { <<>>, <<"p", "q">> }

\* sprintf(body_length, "%zu", len) for the lengths of ScratchBodies.
SizeString(len) == IF len = 2 THEN "2" ELSE "0"

\* http_message_create, http_message_set_header_line, header_set of key A,
\* then of key B, http_message_set_body (which sets Content-Length).
ScratchMessages ==
    { [header_line |-> l, headers |-> h \o <<[key |-> <<"Content-Length">>,
                                            value |-> <<SizeString(Len(b))>>]>>,
       body |-> b] :
        l \in ScratchHeaderLines, b \in ScratchBodies,
        h \in {<<>>}
              \cup {<<[key |-> <<"A">>, value |-> v]>> : v \in ScratchValues}
              \cup {<<[key |-> <<"A">>, value |-> v], [key |-> <<"B">>, value |-> w]>> :
                        v \in ScratchValues, w \in ScratchValues} }

\* The header list as strings.
AsHeaders(hs) == [i \in 1..Len(hs) |-> Header(Concat(hs[i].key), Concat(hs[i].value))]

\* http_headers_send: sprintf(s, "%s: %s\r\n", key, value) per header, then
\* "\r\n".
RECURSIVE HeaderBytes(_)
HeaderBytes(hs) ==
    IF hs = <<>> THEN CRLF
    ELSE Head(hs).key \o <<":", " ">> \o Head(hs).value \o CRLF \o HeaderBytes(Tail(hs))

\* http_message_send when every send succeeds: the header line as it is,
\* the headers, the blank line, the body when Content-Length is > 0.
Serialize(m) ==
    m.header_line \o HeaderBytes(m.headers)
    \o (IF atoi(http_message_header_get(AsHeaders(m.headers), "Content-Length")) > 0
        THEN m.body ELSE <<>>)

\* strstr(message, "\r\n\r\n") + 4 - message: length of the header region,
\* 0 when the stream has no blank line.
HeaderLen(stream) ==
    LET ends == {i \in 4..Len(stream) : SubSeq(stream, i - 3, i) = CRLF \o CRLF}
    IN  IF ends = {} THEN 0 ELSE CHOOSE i \in ends : \A j \in ends : i <= j

\* strtok_r(.., "\r\n") over the header region: the runs of characters
\* other than '\r' and '\n', in order.
RECURSIVE Lines(_, _)
Lines(chars, line) ==
    IF chars = <<>> THEN (IF line = <<>> THEN <<>> ELSE <<line>>)
    ELSE IF Head(chars) \in {"\r", "\n"}
         THEN (IF line = <<>> THEN <<>> ELSE <<line>>) \o Lines(Tail(chars), <<>>)
         ELSE Lines(Tail(chars), Append(line, Head(chars)))

\* http_message_recv of a stream that arrives whole: NULL (ok = FALSE) when
\* no blank line comes or the body stays short; otherwise the header line
\* (first token), the headers of the other lines, body_len bytes of body.
Receive(stream) ==
    LET header_len == HeaderLen(stream)
        lines      == Lines(SubSeq(stream, 1, header_len), <<>>)
        region     == Tail(lines)
        crashed    == GoodPrefix(region) < Len(region)
        headers    == http_headers_parse(SplitLines(SubSeq(region, 1, GoodPrefix(region))), <<>>)
        body_len   == atoi(http_message_header_get(headers, "Content-Length"))
    IN  IF header_len = 0 \/ lines = <<>> \/ crashed
           \/ (body_len > 0 /\ Len(stream) # header_len + body_len)
        THEN [ok |-> FALSE]
        ELSE [ok |-> TRUE,
              header_line |-> Concat(Head(lines)),
              headers |-> headers,
              body |-> SubSeq(stream, header_len + 1, header_len + body_len)]

\* http_message_send of a message built from scratch, every byte written.
Msg_Serialize(m) ==
    /\ http.op = "none"
    /\ http' = [op |-> "serialized", message |-> m, stream |-> Serialize(m)]
    /\ UNCHANGED <<cacheVars, threadVars, free_pc, obsVars, workerVars, supVars>>

\* http_message_recv by the peer that reads the stream.
Msg_Receive ==
    /\ http.op = "serialized"
    /\ http' = [http EXCEPT !.op = "received", !.stream = Receive(@)]
    /\ UNCHANGED <<cacheVars, threadVars, free_pc, obsVars, workerVars, supVars>>

NextRoundTrip ==
    \/ \E m \in ScratchMessages : Msg_Serialize(m)
    \/ Msg_Receive

SpecRoundTrip == InitServer /\ [][NextRoundTrip]_vars

\* ======================================================================
\* request.c: request_header_parse, request_is_cacheable, request_get_key
\* ======================================================================
\* Strings are sequences of characters; NullChars is the NULL pointer.
NullChars == <<NoValue>>

\* atoi of a sequence of characters: the decimal digits in front.
DigitValue(ch) ==
    CASE ch = "0" -> 0 [] ch = "1" -> 1 [] ch = "2" -> 2 [] ch = "3" -> 3
      [] ch = "4" -> 4 [] ch = "5" -> 5 [] ch = "6" -> 6 [] ch = "7" -> 7
      [] ch = "8" -> 8 [] ch = "9" -> 9 [] OTHER -> -1

RECURSIVE AtoiFrom(_, _)
AtoiFrom(chars, acc) ==
    IF chars = <<>> \/ DigitValue(Head(chars)) < 0 THEN acc
    ELSE AtoiFrom(Tail(chars), 10 * acc + DigitValue(Head(chars)))

atoi_chars(chars) == AtoiFrom(chars, 0)

\* strchr(host, ':'): position of the first ':' in the value, 0 when none.
ColonAt(chars) ==
    IF \E i \in 1..Len(chars) : chars[i] = ":"
    THEN CHOOSE i \in 1..Len(chars) :
            chars[i] = ":" /\ \A j \in 1..(i - 1) : chars[j] # ":"
    ELSE 0

\* A path of n characters.
LongPath(n) == [i \in 1..n |-> "x"]

\* What REQUEST_REGEX matched in the request line: hostname and port are
\* NullChars when their group took no part (origin-form request line), the
\* path may be empty.
RequestLines ==
    [method : {<<"GET">>}, host : {NullChars, <<"h">>},
     port : {NullChars, <<"8", "1">>},
     uri : {<<>>, <<"/", "p">>, <<"/">> \o LongPath(1024)},
     version : {<<"HTTP/1.1">>}]

\* Values of the Host header of the message (NullChars: no Host header).
HostHeaders ==
    {NullChars, <<>>, <<"g">>, <<"g", ":", "8", "0">>, <<"g", ":">>}

\* Values of the Cache-Control header (NoValue: none).
CacheControls == {NoValue, "no-cache", "max-age=0"}

\* request_header_parse (the text with REQUEST_REGEX): the fields from the
\* groups of the request line, port -1 without a port group; then, with a
\* Host header, host = strndup(host, strlen(host)) is taken BEFORE the
\* value is cut at the ':' (`*port_str = '\0'` cuts the header value of the
\* message, not the copy), and port = atoi(port_str + 1).
request_header_parse(line, host_header) ==
    LET at == IF host_header = NullChars THEN 0 ELSE ColonAt(host_header)
    IN  [method  |-> line.method,
         version |-> line.version,
         uri     |-> line.uri,
         host    |-> IF host_header # NullChars THEN host_header ELSE line.host,
         port    |-> IF at # 0
                     THEN atoi_chars(SubSeq(host_header, at + 1, Len(host_header)))
                     ELSE IF line.port # NullChars THEN atoi_chars(line.port)
                     ELSE -1,
         host_header |-> IF at # 0 THEN SubSeq(host_header, 1, at - 1)
                         ELSE host_header]

\* A request_t as request_new leaves it and as other callers fill it:
\* any field may be NULL, the method need not be GET.
RequestStructs ==
    [method : {NullChars, <<"GET">>, <<"POST">>}, version : {NullChars, <<"HTTP/1.1">>},
     uri : {NullChars, <<"/", "p">>}, host : {NullChars, <<"h">>},
     port : {-1}, host_header : {NullChars}]

\* The two texts of request_is_cacheable: with the Cache-Control test
\* commented out, and with it.
CacheableRevisions == {"plain", "cache-control"}

\* request_is_cacheable
request_is_cacheable(rev, r, cache_control) ==
    IF r.method = NullChars \/ r.method # <<"GET">> THEN 0
    ELSE IF r.version = NullChars THEN 0
    ELSE IF r.host = NullChars THEN 0
    ELSE IF r.uri = NullChars THEN 0
    ELSE IF rev = "cache-control" /\ cache_control = "no-cache" THEN 0
    ELSE 1

\* Size of `char key[1024]` in handle_client, the len it passes.
KEY_SIZE == 1024

\* request_get_key(request, key, len): *key = '\0', and for a cacheable
\* request snprintf(key, len, "%s%s", host, uri), at most len - 1 characters.
request_get_key_chars(rev, r, cache_control, len) ==
    IF request_is_cacheable(rev, r, cache_control) = 1
    THEN SubSeq(r.host \o r.uri, 1, Min(Len(r.host) + Len(r.uri), len - 1))
    ELSE <<>>

\* request_parse of a received message, then request_get_key as
\* handle_client calls it.
Req_Parse(line, host_header, cache_control, rev) ==
    /\ http.op = "none"
    /\ LET r == request_header_parse(line, host_header)
       IN  http' = [op |-> "request", from |-> "parse", rev |-> rev,
                    line |-> line, host_header |-> host_header,
                    cache_control |-> cache_control, request |-> r,
                    key |-> request_get_key_chars(rev, r, cache_control, KEY_SIZE)]
    /\ UNCHANGED <<cacheVars, threadVars, free_pc, obsVars, workerVars, supVars>>

\* request_get_key on a request_t that did not come from the parse.
Req_Key(r, cache_control, rev) ==
    /\ http.op = "none"
    /\ http' = [op |-> "request", from |-> "struct", rev |-> rev,
                line |-> r, host_header |-> NullChars,
                cache_control |-> cache_control, request |-> r,
                key |-> request_get_key_chars(rev, r, cache_control, KEY_SIZE)]
    /\ UNCHANGED <<cacheVars, threadVars, free_pc, obsVars, workerVars, supVars>>

NextRequest ==
    \/ \E line \in RequestLines, h \in HostHeaders, cc \in CacheControls,
          rev \in CacheableRevisions : Req_Parse(line, h, cc, rev)
    \/ \E r \in RequestStructs, cc \in CacheControls, rev \in CacheableRevisions :
          Req_Key(r, cc, rev)

SpecRequest == InitServer /\ [][NextRequest]_vars

\* ======================================================================
\* response.c: response_fetch, step by step
\* ======================================================================
\* Status lines origins answer with, one string per token: well formed
\* ones, one without a version, and lines RESPONSE_STATUS_REGEX does not
\* match (no status code between blanks).
StatusLines ==
    { <<"HTTP/1.1", " ", "200", " ", "OK">>,
      <<"HTTP/1.1", " ", "404", " ", "Not Found">>,
      <<"HTTP/1.0", " ", "500", " ", "Error">>,
      <<" ", "200", " ", "OK">>,
      <<"HTTP/1.1", " ", "OK">>,
      <<"HTTP/1.1">>,
      <<"ICY", "200", "OK">> }

IsNumber(token) == token \in {"200", "404", "500"}

\* atoi of the status code group.
StatusCode(token) ==
    CASE token = "200" -> 200 [] token = "404" -> 404 [] token = "500" -> 500
      [] OTHER -> 0

\* regexec(RESPONSE_STATUS_REGEX = "(HTTP/[0-9]+\.[0-9]+)?\s+([0-9]+)\s+(.*)"):
\* position of the status code of the first match, 0 for REG_NOMATCH.
StatusMatch(line) ==
    LET hits == {i \in 2..(Len(line) - 1) :
                    line[i - 1] = " " /\ IsNumber(line[i]) /\ line[i + 1] = " "}
    IN  IF hits = {} THEN 0 ELSE CHOOSE i \in hits : \A j \in hits : i <= j

\* response_t after malloc and memset(response, 0, ..), with its message.
EmptyResponse(line) ==
    [message |-> line, version |-> NoValue, status_code |-> 0, reason |-> NoValue]

\* response_header_parse: on a match the version (when its group took
\* part), the status code and the reason; on REG_NOMATCH -1 and the
\* response is left as it was.
response_header_parse(resp) ==
    LET line == resp.message
        at   == StatusMatch(line)
    IN  IF at = 0 THEN [rv |-> -1, response |-> resp]
        ELSE [rv |-> 0,
              response |-> [resp EXCEPT
                  !.version = IF at > 2 THEN line[at - 2] ELSE NoValue,
                  !.status_code = StatusCode(line[at]),
                  !.reason = Concat(SubSeq(line, at + 2, Len(line)))]]

\* The NULL response_t pointer.
NullResponse == [message |-> <<>>, version |-> NoValue, status_code |-> -1,
                 reason |-> NoValue]

\* Requests handed to response_fetch: host and port of the origin.
FetchRequests == {[host |-> "a", port |-> 80], [host |-> "a", port |-> -1],
                  [host |-> "b", port |-> 80]}

\* response_fetch(request)
Fetch_Call(req) ==
    /\ http.op = "none"
    /\ http' = [op |-> "fetch", pc |-> "connect", request |-> req,
                failed |-> {}, response |-> NullResponse,
                opened |-> 0, closed |-> 0]
    /\ UNCHANGED <<cacheVars, threadVars, free_pc, obsVars, workerVars, supVars>>

\* connect_to_hostname: NULL returns NULL from response_fetch.
Fetch_Connect(ok) ==
    /\ http.op = "fetch" /\ http.pc = "connect"
    /\ http' = IF ok THEN [http EXCEPT !.pc = "send", !.opened = 1]
               ELSE [http EXCEPT !.pc = "returned", !.failed = @ \cup {"connect"}]
    /\ UNCHANGED <<cacheVars, threadVars, free_pc, obsVars, workerVars, supVars>>

\* request_send(request, server_connection); its return value is dropped.
Fetch_Send(ok) ==
    /\ http.op = "fetch" /\ http.pc = "send"
    /\ http' = [http EXCEPT !.pc = "recv",
                            !.failed = IF ok THEN @ ELSE @ \cup {"send"}]
    /\ UNCHANGED <<cacheVars, threadVars, free_pc, obsVars, workerVars, supVars>>

\* response_recv: http_message_recv gives a message, or NULL and then
\* response_recv returns NULL.
Fetch_Recv(ok, line) ==
    /\ http.op = "fetch" /\ http.pc = "recv"
    /\ http' = IF ok THEN [http EXCEPT !.pc = "parse", !.response = EmptyResponse(line)]
               ELSE [http EXCEPT !.pc = "close", !.failed = @ \cup {"recv"}]
    /\ UNCHANGED <<cacheVars, threadVars, free_pc, obsVars, workerVars, supVars>>

\* response_recv: response_header_parse(response), its return value
\* dropped, then `return response`.
Fetch_Parse ==
    /\ http.op = "fetch" /\ http.pc = "parse"
    /\ LET parsed == response_header_parse(http.response)
       IN  http' = [http EXCEPT !.pc = "close", !.response = parsed.response,
                                !.failed = IF parsed.rv = 0 THEN @
                                           ELSE @ \cup {"parse"}]
    /\ UNCHANGED <<cacheVars, threadVars, free_pc, obsVars, workerVars, supVars>>

\* close_connection(server_connection); return response.
Fetch_Close ==
    /\ http.op = "fetch" /\ http.pc = "close"
    /\ http' = [http EXCEPT !.pc = "returned", !.closed = 1]
    /\ UNCHANGED <<cacheVars, threadVars, free_pc, obsVars, workerVars, supVars>>

NextFetch ==
    \/ \E req \in FetchRequests : Fetch_Call(req)
    \/ \E ok \in BOOLEAN : Fetch_Connect(ok)
    \/ \E ok \in BOOLEAN : Fetch_Send(ok)
    \/ \E line \in StatusLines : Fetch_Recv(TRUE, line)
    \/ Fetch_Recv(FALSE, <<>>)
    \/ Fetch_Parse
    \/ Fetch_Close

SpecFetch == InitServer /\ [][NextFetch]_vars

\* ======================================================================
\* cache.c: cache_get and cache_free statement by statement around
\* sem_wait(&cache->mutex) and sem_post(&cache->mutex), for one key
\* ======================================================================
\* The thread that calls cache_free.
FreeThread == NumWorkers + 1

\* Where a thread is about to call sem_wait, and where it is once granted.
AfterWait(pos) ==
    CASE pos = "lookup_wait" -> "lookup"
      [] pos = "loop_wait" -> "switch"
      [] pos = "mark_wait" -> "mark"
      [] pos = "rel_wait" -> "rel"
      [] pos = "f_wait" -> "f_test"

\* Where a thread is about to call sem_post, and where it goes from there.
AfterPost(pos) ==
    CASE pos = "lookup_post" -> "loop_wait"
      [] pos = "post_retry" -> "loop_wait"      \* end_switch: sem_post; sleep(1)
      [] pos = "post_admit" -> "read"           \* goto obtained_cache_entry
      [] pos = "post_claim" -> "resolve"        \* goto obtained_cache_entry
      [] pos = "mark_post" -> "read"
      [] pos = "rel_post" -> "idle"             \* return 0
      [] pos = "f_post_break" -> "f_walk"
      [] pos = "f_post_sleep" -> "f_wait"

WaitPositions == {"lookup_wait", "loop_wait", "mark_wait", "rel_wait"}
PostPositions == {"lookup_post", "post_retry", "post_admit", "post_claim",
                  "mark_post", "rel_post"}

\* cache_init: sem_init(&cache->mutex, 0, 1), num_users 0, empty index.
Mx_Init ==
    /\ http.op = "none"
    /\ http' = [op |-> "mutex", sem |-> 1,
                locks |-> [t \in 1..FreeThread |-> 0],
                tpc |-> [w \in Workers |-> "idle"], fpc |-> "idle",
                linked |-> FALSE, status |-> CACHE_ENTRY_STATUS_INVALID,
                num_users |-> 0, cache_users |-> 0,
                sync |-> [w \in Workers |-> 0], exited |-> FALSE]
    /\ UNCHANGED <<cacheVars, threadVars, free_pc, obsVars, workerVars, supVars>>

Mx_Running == http.op = "mutex" /\ ~http.exited /\ http.fpc # "done"

\* cache_get is entered; the hash and the path are computed on locals.
Mx_Call(w) ==
    /\ Mx_Running /\ http.fpc = "idle" /\ http.tpc[w] = "idle"
    /\ http' = [http EXCEPT !.tpc[w] = "lookup_wait", !.sync[w] = 0]
    /\ UNCHANGED <<cacheVars, threadVars, free_pc, obsVars, workerVars, supVars>>

\* sem_wait(&cache->mutex) of a thread inside cache_get.
Mx_SemWait(w) ==
    /\ Mx_Running /\ http.tpc[w] \in WaitPositions /\ http.sem > 0
    /\ http' = [http EXCEPT !.sem = @ - 1, !.locks[w] = @ + 1,
                            !.tpc[w] = AfterWait(@)]
    /\ UNCHANGED <<cacheVars, threadVars, free_pc, obsVars, workerVars, supVars>>

\* sem_post(&cache->mutex) of a thread inside cache_get.
Mx_SemPost(w) ==
    /\ Mx_Running /\ http.tpc[w] \in PostPositions
    /\ http' = [http EXCEPT !.sem = @ + 1, !.locks[w] = @ - 1,
                            !.tpc[w] = AfterPost(@)]
    /\ UNCHANGED <<cacheVars, threadVars, free_pc, obsVars, workerVars, supVars>>

\* The traversal of the bucket's list and the creation of the record.
Mx_Lookup(w) ==
    /\ Mx_Running /\ http.tpc[w] = "lookup"
    /\ http' = IF http.linked THEN [http EXCEPT !.tpc[w] = "lookup_post"]
               ELSE [http EXCEPT !.tpc[w] = "lookup_post", !.linked = TRUE,
                                 !.status = CACHE_ENTRY_STATUS_INVALID,
                                 !.num_users = 0]
    /\ UNCHANGED <<cacheVars, threadVars, free_pc, obsVars, workerVars, supVars>>

\* The switch on the status; expired is the value of
\* time(NULL) - timestamp > ttl.
Mx_Switch(w, expired) ==
    /\ Mx_Running /\ http.tpc[w] = "switch"
    /\ http' =
         CASE http.status = CACHE_ENTRY_STATUS_OK /\ expired ->
                [http EXCEPT !.status = CACHE_ENTRY_STATUS_INVALID,
                             !.tpc[w] = "post_retry"]
           [] http.status = CACHE_ENTRY_STATUS_OK /\ ~expired ->
                [http EXCEPT !.cache_users = @ + 1, !.num_users = @ + 1,
                             !.tpc[w] = "post_admit"]
           [] http.status = CACHE_ENTRY_STATUS_IN_PROGRESS ->
                [http EXCEPT !.tpc[w] = "post_retry"]
           [] http.status = CACHE_ENTRY_STATUS_INVALID /\ http.num_users = 0 ->
                [http EXCEPT !.cache_users = @ + 1, !.num_users = @ + 1,
                             !.status = CACHE_ENTRY_STATUS_IN_PROGRESS,
                             !.sync[w] = 1, !.tpc[w] = "post_claim"]
           [] OTHER -> [http EXCEPT !.tpc[w] = "post_retry"]
    /\ UNCHANGED <<cacheVars, threadVars, free_pc, obsVars, workerVars, supVars>>

\* cache_miss_resolver(cache_entry, arg) returns.
Mx_Resolve(w) ==
    /\ Mx_Running /\ http.tpc[w] = "resolve"
    /\ http' = [http EXCEPT !.tpc[w] = "mark_wait"]
    /\ UNCHANGED <<cacheVars, threadVars, free_pc, obsVars, workerVars, supVars>>

\* status = OK; timestamp = time(NULL).
Mx_Mark(w) ==
    /\ Mx_Running /\ http.tpc[w] = "mark"
    /\ http' = [http EXCEPT !.status = CACHE_ENTRY_STATUS_OK,
                            !.tpc[w] = "mark_post"]
    /\ UNCHANGED <<cacheVars, threadVars, free_pc, obsVars, workerVars, supVars>>

\* fopen, the fread loop, fclose; exit(1) when one of them fails.
Mx_Read(w, ok) ==
    /\ Mx_Running /\ http.tpc[w] = "read"
    /\ http' = IF ok THEN [http EXCEPT !.tpc[w] = "rel_wait"]
               ELSE [http EXCEPT !.exited = TRUE]
    /\ UNCHANGED <<cacheVars, threadVars, free_pc, obsVars, workerVars, supVars>>

\* cache_entry_ptr->num_users--; cache->num_users--.
Mx_Release(w) ==
    /\ Mx_Running /\ http.tpc[w] = "rel"
    /\ http' = [http EXCEPT !.num_users = @ - 1, !.cache_users = @ - 1,
                            !.tpc[w] = "rel_post"]
    /\ UNCHANGED <<cacheVars, threadVars, free_pc, obsVars, workerVars, supVars>>

\* cache_free(cache) is called.
Mx_FreeCall ==
    /\ Mx_Running /\ http.fpc = "idle"
    /\ http' = [http EXCEPT !.fpc = "f_wait"]
    /\ UNCHANGED <<cacheVars, threadVars, free_pc, obsVars, workerVars, supVars>>

\* cache_free: sem_wait(&cache->mutex).
Mx_FreeSemWait ==
    /\ Mx_Running /\ http.fpc = "f_wait" /\ http.sem > 0
    /\ http' = [http EXCEPT !.sem = @ - 1, !.locks[FreeThread] = @ + 1,
                            !.fpc = AfterWait(@)]
    /\ UNCHANGED <<cacheVars, threadVars, free_pc, obsVars, workerVars, supVars>>

\* cache_free: if (cache->num_users == 0).
Mx_FreeTest ==
    /\ Mx_Running /\ http.fpc = "f_test"
    /\ http' = [http EXCEPT !.fpc = IF http.cache_users = 0 THEN "f_post_break"
                                    ELSE "f_post_sleep"]
    /\ UNCHANGED <<cacheVars, threadVars, free_pc, obsVars, workerVars, supVars>>

\* cache_free: sem_post(&cache->mutex), then break or sleep(1).
Mx_FreeSemPost ==
    /\ Mx_Running /\ http.fpc \in {"f_post_break", "f_post_sleep"}
    /\ http' = [http EXCEPT !.sem = @ + 1, !.locks[FreeThread] = @ - 1,
                            !.fpc = AfterPost(@)]
    /\ UNCHANGED <<cacheVars, threadVars, free_pc, obsVars, workerVars, supVars>>

\* cache_free: the walk over hash_table[i].first and ent->next with
\* cache_entry_storage_free, then sem_destroy and free(cache).
Mx_FreeWalk ==
    /\ Mx_Running /\ http.fpc = "f_walk"
    /\ http' = [http EXCEPT !.linked = FALSE, !.fpc = "done"]
    /\ UNCHANGED <<cacheVars, threadVars, free_pc, obsVars, workerVars, supVars>>

NextMutex ==
    \/ Mx_Init
    \/ \E w \in Workers : Mx_Call(w)
    \/ \E w \in Workers : Mx_SemWait(w)
    \/ \E w \in Workers : Mx_SemPost(w)
    \/ \E w \in Workers : Mx_Lookup(w)
    \/ \E w \in Workers, expired \in BOOLEAN : Mx_Switch(w, expired)
    \/ \E w \in Workers : Mx_Resolve(w)
    \/ \E w \in Workers : Mx_Mark(w)
    \/ \E w \in Workers, ok \in BOOLEAN : Mx_Read(w, ok)
    \/ \E w \in Workers : Mx_Release(w)
    \/ Mx_FreeCall
    \/ Mx_FreeSemWait
    \/ Mx_FreeTest
    \/ Mx_FreeSemPost
    \/ Mx_FreeWalk

SpecMutex == InitServer /\ [][NextMutex]_vars

\* ======================================================================
\* main.c: the fork-per-connection supervisor and its count of children
\* ======================================================================
\* main() up to the accept loop: running = 1, num_children = 0, handlers
\* installed with sa_flags = 0 and an empty sa_mask.  live: children that
\* have not exited; zombies: children that exited and are not reaped;
\* pending: a SIGCHLD is pending; reg: the value the parent loaded for
\* num_children++.
Sup_Start ==
    /\ http.op = "none"
    /\ http' = [op |-> "children", ppc |-> "accept", running |-> 1,
                num_children |-> 0, reg |-> 0, live |-> 0, zombies |-> 0,
                pending |-> FALSE, blocked |-> FALSE, forks |-> 0,
                interrupted |-> FALSE]
    /\ UNCHANGED <<cacheVars, threadVars, free_pc, obsVars, workerVars, supVars>>

\* while (running): accept returns a connection and fork() gives a child.
Sup_Fork ==
    /\ http.op = "children" /\ http.ppc = "accept"
    /\ http.running = 1 /\ http.forks < MaxForks
    /\ http' = [http EXCEPT !.ppc = "inc_load", !.live = @ + 1, !.forks = @ + 1]
    /\ UNCHANGED <<cacheVars, threadVars, free_pc, obsVars, workerVars, supVars>>

\* num_children++ of the parent: the load ...
Sup_IncLoad ==
    /\ http.op = "children" /\ http.ppc = "inc_load"
    /\ http' = [http EXCEPT !.ppc = "inc_store", !.reg = http.num_children]
    /\ UNCHANGED <<cacheVars, threadVars, free_pc, obsVars, workerVars, supVars>>

\* ... and the store; close(fd) and back to the loop test.
Sup_IncStore ==
    /\ http.op = "children" /\ http.ppc = "inc_store"
    /\ http' = [http EXCEPT !.ppc = "accept", !.num_children = http.reg + 1]
    /\ UNCHANGED <<cacheVars, threadVars, free_pc, obsVars, workerVars, supVars>>

\* while (running) is false: close(server_fd); sigprocmask(SIG_BLOCK,
\* {SIGCHLD}); the final loop is reached.
Sup_Block ==
    /\ http.op = "children" /\ http.ppc = "accept" /\ http.running = 0
    /\ http' = [http EXCEPT !.ppc = "final", !.blocked = TRUE]
    /\ UNCHANGED <<cacheVars, threadVars, free_pc, obsVars, workerVars, supVars>>

\* while (num_children > 0)
Sup_WaitTest ==
    /\ http.op = "children" /\ http.ppc \in {"final", "wait_test"}
    /\ http' = [http EXCEPT !.ppc = IF http.num_children > 0 THEN "waiting"
                                    ELSE "done"]
    /\ UNCHANGED <<cacheVars, threadVars, free_pc, obsVars, workerVars, supVars>>

\* wait(NULL); num_children--: wait reaps a child that has exited, or fails
\* at once with ECHILD when the process has no child; with children that
\* all still run it blocks.  Its return value is not read.
Sup_Wait ==
    /\ http.op = "children" /\ http.ppc = "waiting"
    /\ http.zombies > 0 \/ http.live = 0
    /\ http' = [http EXCEPT !.ppc = "wait_test",
                            !.zombies = IF @ > 0 THEN @ - 1 ELSE 0,
                            !.num_children = @ - 1]
    /\ UNCHANGED <<cacheVars, threadVars, free_pc, obsVars, workerVars, supVars>>

\* SIGINT is delivered to the parent: sig_handler sets running = 0.  The
\* handlers are installed without SA_RESTART, so a wait(NULL) the parent is
\* blocked in returns -1 (EINTR) and the loop goes on to num_children--.
Sig_INT ==
    /\ http.op = "children" /\ http.ppc # "done"
    /\ http' = IF http.ppc = "waiting" /\ http.zombies = 0 /\ http.live > 0
               THEN [http EXCEPT !.running = 0, !.ppc = "wait_test",
                                 !.num_children = @ - 1, !.interrupted = TRUE]
               ELSE [http EXCEPT !.running = 0]
    /\ UNCHANGED <<cacheVars, threadVars, free_pc, obsVars, workerVars, supVars>>

\* A child returns from handle_request and exits: SIGCHLD for the parent.
Child_Exit ==
    /\ http.op = "children" /\ http.live > 0
    /\ http' = [http EXCEPT !.live = @ - 1, !.zombies = @ + 1, !.pending = TRUE]
    /\ UNCHANGED <<cacheVars, threadVars, free_pc, obsVars, workerVars, supVars>>

\* sig_handler(SIGCHLD), between any two steps of the parent:
\* while (waitpid(-1, NULL, WNOHANG) > 0) num_children--;
Sig_CHLD ==
    /\ http.op = "children" /\ http.pending /\ ~http.blocked
    /\ http.ppc # "done"
    /\ http' = [http EXCEPT !.pending = FALSE, !.zombies = 0,
                            !.num_children = @ - http.zombies]
    /\ UNCHANGED <<cacheVars, threadVars, free_pc, obsVars, workerVars, supVars>>

NextChildren ==
    \/ Sup_Start
    \/ Sup_Fork
    \/ Sup_IncLoad
    \/ Sup_IncStore
    \/ Sup_Block
    \/ Sup_WaitTest
    \/ Sup_Wait
    \/ Sig_INT
    \/ Child_Exit
    \/ Sig_CHLD

SpecChildren == InitServer /\ [][NextChildren]_vars

\* ======================================================================
\* main.c: handle_request and the flock on the cache file of one key
\* ======================================================================
\* The file system for the path of one key: inodes holds the files ever
\* created for the path (content "empty", "partial" while it is written,
\* "full"; lock: the worker whose open file description holds a flock on
\* it, 0 for none); path is the inode the path names now, 0 when the path
\* does not exist.  Each worker handles one request for the key.
Fl_Start ==
    /\ http.op = "none"
    /\ http' = [op |-> "flock", inodes |-> <<>>, path |-> 0,
                wpc |-> [c \in Clients |-> "idle"],
                fd |-> [c \in Clients |-> 0],
                got |-> [c \in Clients |-> "none"]]
    /\ UNCHANGED <<cacheVars, threadVars, free_pc, obsVars, workerVars, supVars>>

NewInode == [content |-> "empty", lock |-> 0]

\* close of the descriptor a worker holds: the flock of its open file
\* description goes with it.
Unlocked(inodes, c, f) ==
    IF f # 0 /\ inodes[f].lock = c THEN [inodes EXCEPT ![f].lock = 0] ELSE inodes

\* open(path, O_RDONLY | O_CREAT): the file the path names, created empty
\* when the path does not exist.
Fl_Open(c) ==
    /\ http.op = "flock" /\ http.wpc[c] = "idle"
    /\ http' = IF http.path # 0
               THEN [http EXCEPT !.wpc[c] = "flock", !.fd[c] = http.path]
               ELSE [http EXCEPT !.wpc[c] = "flock",
                                 !.inodes = Append(@, NewInode),
                                 !.path = Len(http.inodes) + 1,
                                 !.fd[c] = Len(http.inodes) + 1]
    /\ UNCHANGED <<cacheVars, threadVars, free_pc, obsVars, workerVars, supVars>>

\* flock(fd, LOCK_EX): granted when no other open file description holds a
\* lock on the file fd refers to; it blocks until then.
Fl_Lock(c) ==
    /\ http.op = "flock" /\ http.wpc[c] = "flock"
    /\ http.inodes[http.fd[c]].lock = 0
    /\ http' = [http EXCEPT !.wpc[c] = "stat", !.inodes[http.fd[c]].lock = c]
    /\ UNCHANGED <<cacheVars, threadVars, free_pc, obsVars, workerVars, supVars>>

\* What stat(path) says of the file the path names now: "empty", "stale"
\* or "valid"; when the path does not exist stat fails and attr is read
\* uninitialised.
StatResults(stale) ==
    IF http.path = 0 THEN {"empty", "stale", "valid"}
    ELSE IF http.inodes[http.path].content = "empty" THEN {"empty"}
    ELSE IF stale THEN {"stale"} ELSE {"valid"}

\* stat(path) and the three branches: remove(path) for an empty or stale
\* file, response_read(f) from the worker's descriptor for a valid one.
Fl_Stat(c, stale) ==
    /\ http.op = "flock" /\ http.wpc[c] = "stat"
    /\ \E result \in StatResults(stale) :
         http' = IF result = "valid"
                 THEN LET content == http.inodes[http.fd[c]].content
                      IN  IF content = "empty"
                          THEN [http EXCEPT !.wpc[c] = "fetch"]
                          ELSE [http EXCEPT !.wpc[c] = "unlock", !.got[c] = content]
                 ELSE [http EXCEPT !.wpc[c] = "fetch", !.path = 0]
    /\ UNCHANGED <<cacheVars, threadVars, free_pc, obsVars, workerVars, supVars>>

\* response_fetch(request) is entered.
Fl_Fetch(c) ==
    /\ http.op = "flock" /\ http.wpc[c] = "fetch"
    /\ http' = [http EXCEPT !.wpc[c] = "fetching"]
    /\ UNCHANGED <<cacheVars, threadVars, free_pc, obsVars, workerVars, supVars>>

\* response_fetch returns: NULL (500 to the client, LOCK_UN, close, return)
\* or the response, after which fclose(f) closes the locked descriptor.
Fl_Fetched(c, ok) ==
    /\ http.op = "flock" /\ http.wpc[c] = "fetching"
    /\ http' = IF ok
               THEN [http EXCEPT !.wpc[c] = "fopen", !.got[c] = "fetched",
                                 !.inodes = Unlocked(@, c, http.fd[c]),
                                 !.fd[c] = 0]
               ELSE [http EXCEPT !.wpc[c] = "done",
                                 !.inodes = Unlocked(@, c, http.fd[c]),
                                 !.fd[c] = 0]
    /\ UNCHANGED <<cacheVars, threadVars, free_pc, obsVars, workerVars, supVars>>

\* f = fopen(path, "w"); fd = fileno(f): the file the path names is
\* truncated, or a new one is created; no flock is taken on it.
Fl_FopenW(c) ==
    /\ http.op = "flock" /\ http.wpc[c] = "fopen"
    /\ http' = IF http.path # 0
               THEN [http EXCEPT !.wpc[c] = "write", !.fd[c] = http.path,
                                 !.inodes[http.path].content = "empty"]
               ELSE [http EXCEPT !.wpc[c] = "write",
                                 !.inodes = Append(@, NewInode),
                                 !.path = Len(http.inodes) + 1,
                                 !.fd[c] = Len(http.inodes) + 1]
    /\ UNCHANGED <<cacheVars, threadVars, free_pc, obsVars, workerVars, supVars>>

\* response_write(response, f): the first bytes reach the file ...
Fl_Write(c) ==
    /\ http.op = "flock" /\ http.wpc[c] = "write"
    /\ http' = [http EXCEPT !.wpc[c] = "write_rest",
                            !.inodes[http.fd[c]].content = "partial"]
    /\ UNCHANGED <<cacheVars, threadVars, free_pc, obsVars, workerVars, supVars>>

\* ... and the rest.
Fl_WriteRest(c) ==
    /\ http.op = "flock" /\ http.wpc[c] = "write_rest"
    /\ http' = [http EXCEPT !.wpc[c] = "unlock",
                            !.inodes[http.fd[c]].content = "full"]
    /\ UNCHANGED <<cacheVars, threadVars, free_pc, obsVars, workerVars, supVars>>

\* flock(fd, LOCK_UN); close(fd); the response goes to the client.
Fl_Unlock(c) ==
    /\ http.op = "flock" /\ http.wpc[c] = "unlock"
    /\ http' = [http EXCEPT !.wpc[c] = "done",
                            !.inodes = Unlocked(@, c, http.fd[c]),
                            !.fd[c] = 0]
    /\ UNCHANGED <<cacheVars, threadVars, free_pc, obsVars, workerVars, supVars>>

NextFlock ==
    \/ Fl_Start
    \/ \E c \in Clients : Fl_Open(c)
    \/ \E c \in Clients : Fl_Lock(c)
    \/ \E c \in Clients, stale \in BOOLEAN : Fl_Stat(c, stale)
    \/ \E c \in Clients : Fl_Fetch(c)
    \/ \E c \in Clients, ok \in BOOLEAN : Fl_Fetched(c, ok)
    \/ \E c \in Clients : Fl_FopenW(c)
    \/ \E c \in Clients : Fl_Write(c)
    \/ \E c \in Clients : Fl_WriteRest(c)
    \/ \E c \in Clients : Fl_Unlock(c)

SpecFlock == InitServer /\ [][NextFlock]_vars

\* ======================================================================
\* pid_list.c: pid_list_remove and pid_list_reap
\* ======================================================================
\* The list pid_list_create and pid_list_append build for n children:
\* node i holds pid i and points to node i + 1, the last one to NULL.
BuiltList(n) == [i \in 1..n |-> [pid |-> i, next |-> IF i < n THEN i + 1 ELSE NULL]]

\* The while loop of pid_list_remove from node current with predecessor
\* prev: the node of pid is unlinked and freed.  Gives the list returned,
\* the heap and the node freed (NULL when pid is not in the list).
RECURSIVE RemoveFrom(_, _, _, _, _)
RemoveFrom(nodes, list, prev, current, pid) ==
    IF current = NULL THEN [list |-> list, nodes |-> nodes, freed |-> NULL]
    ELSE IF nodes[current].pid = pid
         THEN IF prev = NULL
              THEN \* removing the head: return its successor
                   [list |-> nodes[current].next, nodes |-> nodes, freed |-> current]
              ELSE \* removing a node in the middle
                   [list |-> list,
                    nodes |-> [nodes EXCEPT ![prev].next = nodes[current].next],
                    freed |-> current]
         ELSE RemoveFrom(nodes, list, current, nodes[current].next, pid)

pid_list_remove(nodes, list, pid) ==
    IF list = NULL THEN [list |-> list, nodes |-> nodes, freed |-> NULL]
    ELSE RemoveFrom(nodes, list, NULL, list, pid)

\* What `current->next` gives when current has been freed: the successor
\* it had, while the allocator has left the block alone, or the process is
\* ended by the access.
FreedReads == {"old", "SIGSEGV"}

\* pid_list_reap(child_pids): the supervisor's list of n children, of
\* which those in gone have exited.  list and current are the locals of
\* pid_list_reap, child_pids is the pointer the caller keeps.
Reap_Call(n, gone) ==
    /\ http.op = "none"
    /\ http' = [op |-> "reap", pc |-> "loop", nodes |-> BuiltList(n),
                freed |-> {}, child_pids |-> 1, list |-> 1, current |-> 1,
                exited |-> gone, n |-> n, freed_access |-> FALSE]
    /\ UNCHANGED <<cacheVars, threadVars, free_pc, obsVars, workerVars, supVars>>

\* One pass of the while loop: waitpid(current->pid, .., WNOHANG); for a
\* child that has exited list = pid_list_remove(list, pid); then
\* current = current->next.
Reap_Step(read) ==
    /\ http.op = "reap" /\ http.pc = "loop"
    /\ LET current == http.current
           pid     == http.nodes[current].pid
           removed == pid_list_remove(http.nodes, http.list, pid)
           next    == http.nodes[current].next
       IN  IF pid \in http.exited
           THEN IF read = "SIGSEGV"
                THEN http' = [http EXCEPT !.pc = "crashed",
                                          !.nodes = removed.nodes,
                                          !.list = removed.list,
                                          !.freed = @ \cup {removed.freed},
                                          !.freed_access = TRUE]
                ELSE http' = [http EXCEPT !.pc = IF next = NULL THEN "returned"
                                                 ELSE "loop",
                                          !.nodes = removed.nodes,
                                          !.list = removed.list,
                                          !.freed = @ \cup {removed.freed},
                                          !.current = next,
                                          !.freed_access = TRUE]
           ELSE /\ read = "old"
                /\ http' = [http EXCEPT !.pc = IF next = NULL THEN "returned"
                                               ELSE "loop",
                                        !.current = next]
    /\ UNCHANGED <<cacheVars, threadVars, free_pc, obsVars, workerVars, supVars>>

\* Subsets of the children that have exited when the pass is made.
NextReap ==
    \/ \E n \in 1..MaxPids, gone \in SUBSET (1..MaxPids) :
          gone \subseteq 1..n /\ Reap_Call(n, gone)
    \/ \E read \in FreedReads : Reap_Step(read)

SpecReap == InitServer /\ [][NextReap]_vars

TypeOK ==
    /\ cache_users \in Int
    /\ now \in 0..MaxTime
    /\ http.op \in {"none", "parse", "set", "remove", "recv", "send",
                    "serialized", "received", "request", "fetch", "mutex", "children", "flock", "reap"}
    /\ \A w \in Workers : pc[w] \in {"idle", "loop", "resolve", "cache_set",
                                     "fwrite", "resolved", "fopen", "fread", "release"}
    /\ origin_fds \in Nat
    /\ stop_server \in {0, 1} /\ verbose \in {0, 1}
    /\ sup_pc \in {"init", "test", "accept", "exit1", "close", "kill", "wait",
                    "stopped", "cache_freed", "done"}
    /\ serverfd \in {"none", "listening", "closed"}
    /\ blocklist \in {"loaded", "freed"}
    /\ signalled \subseteq Clients
    /\ \A c \in Clients :
          /\ hc_pc[c] \in {"none", "recv", "blocklist", "fetch", "send",
                            "returned", "exited", "killed", "reaped"}
          /\ origin_conn[c].closed <= origin_conn[c].opened

\* ======================================================================
\* Properties
\* ======================================================================

\* Positions of cache_get between the claim and the end of the resolver call.
InResolver(w) == pc[w] \in {"resolve", "cache_set", "fwrite"}
\* ... and up to the promotion of the entry to OK.
Claimant(w)   == InResolver(w) \/ pc[w] = "resolved"
\* Positions of the read path, from admission to the release.
Reading(w)    == pc[w] \in {"fopen", "fread", "release"}

RecordsOf(k) == {id \in 1..Len(storage) : storage[id].key = k}

\* C1 (single-flight): for every key, at most one thread has claimed the
\* entry and is in (or just out of) the miss resolver, at most one record of
\* the key is IN_PROGRESS, and a thread is past the claim only while the
\* record it holds is IN_PROGRESS.
C1_SingleFlight ==
    \A k \in Keys :
        /\ Cardinality({w \in Workers : key[w] = k /\ Claimant(w)}) <= 1
        /\ Cardinality({id \in RecordsOf(k) :
                           storage[id].status = CACHE_ENTRY_STATUS_IN_PROGRESS}) <= 1
        /\ \A w \in Workers :
              (key[w] = k /\ Claimant(w)) =>
                  storage[cache_entry_ptr[w]].status = CACHE_ENTRY_STATUS_IN_PROGRESS

\* One thread is inside the resolver while another cache_get on the same key
\* is in the coordination loop.
C1_Witness ==
    \E w1, w2 \in Workers :
        /\ w1 # w2 /\ key[w1] = key[w2]
        /\ InResolver(w1) /\ pc[w2] = "loop"

\* ---------------------------------------------------------------- C2
\* Connections whose request is a cacheable one for target k and is not
\* blocked.
Asking(k) == {c \in Clients : request[c].target = k
                              /\ request[c].cacheable /\ ~request[c].blocked}

\* C2: when every connection of the run asks for the same cacheable target
\* and all of them have been answered while none of the workers has exited
\* yet (so the requests were in progress at the same time), the origin has
\* received exactly one request and all clients hold the same body.
C2_OneOriginRequest ==
    \A k \in Keys :
        (/\ Asking(k) = Clients
         /\ \A c \in Clients : hc_pc[c] = "returned" /\ client_recv[c].status = 200)
        => /\ origin_requests[k] = 1
           /\ \A c1, c2 \in Clients : client_recv[c1].body = client_recv[c2].body

\* ---------------------------------------------------------------- C3
\* The thread's cache_get returns now (release -> idle, process alive).
Returns(w) == pc[w] = "release" /\ pc'[w] = "idle" /\ ~exited'

\* The call of thread w is a hit on an entry that one resolver call has
\* materialized: the second (or a later) call on the key within TTL.
HitAfterOneFetch(w) ==
    /\ synchronize_local_copy[w] = 0
    /\ resolver_calls[key[w]] = 1
    /\ stored[key[w]] # NullBuf

\* C3: when a second cache_get on a key returns within TTL of the first,
\* the resolver has been invoked exactly once for the key and the bytes
\* the caller holds are the bytes the resolver stored with cache_set.
C3_SecondCallBytes ==
    [][\A w \in Workers :
          (Returns(w) /\ HitAfterOneFetch(w)) =>
              /\ resolver_calls'[key[w]] = 1
              /\ data'[w] = stored[key[w]]]_vars

\* ---------------------------------------------------------------- C4
\* The resolver of thread w has written the whole body with cache_set.
Wrote(w) == buffer[w] # NullBuf /\ ntot[w] = Len(buffer[w])

FreshNow(w) ==
    LET e == storage[cache_entry_ptr[w]]
    IN  e.status = CACHE_ENTRY_STATUS_OK /\ now - e.timestamp <= TTL

C6_RefetchAfterExpiry ==
    \A w \in Workers :
        (pc[w] = "release" /\ resolver_calls[key[w]] >= 2) =>
            data_out[w] = OriginResponse(resolver_calls[key[w]])

\* ---------------------------------------------------------------- C7
\* C7: when the resolver has returned without writing the body, the next
\* step of the claimant puts the entry back to INVALID, gives both user
\* counts back and returns -1.
C7_RollbackOnFailure ==
    [][\A w \in Workers :
          LET p == cache_entry_ptr[w]
          IN  (pc[w] = "resolved" /\ ~Wrote(w) /\ pc'[w] # "resolved" /\ ~exited') =>
                  /\ storage'[p].status = CACHE_ENTRY_STATUS_INVALID
                  /\ storage'[p].num_users = storage[p].num_users - 1
                  /\ cache_users' = cache_users - 1
                  /\ ret'[w] = -1
                  /\ pc'[w] = "idle"]_vars

\* ---------------------------------------------------------------- C8
\* C8: every record of the heap is linked exactly once in the index, and
\* no two records linked in the index (whatever their buckets) carry the
\* same key.
C8_OneRecordPerKey ==
    LET all == WalkOrder(0)
    IN  /\ Len(all) = Len(storage)
        /\ \A i, j \in 1..Len(all) :
              storage[all[i]].key = storage[all[j]].key => i = j
        /\ \A k \in Keys : Cardinality(RecordsOf(k)) <= 1

\* Two first-time cache_get calls for the same key are past the lookup at
\* once, before any claim, and hold the same record.
C8_Witness ==
    \E w1, w2 \in Workers :
        /\ w1 # w2 /\ pc[w1] = "loop" /\ pc[w2] = "loop"
        /\ key[w1] = key[w2]
        /\ cache_entry_ptr[w1] = cache_entry_ptr[w2]
        /\ storage[cache_entry_ptr[w1]].status = CACHE_ENTRY_STATUS_INVALID
        /\ resolver_calls[key[w1]] = 0

\* ---------------------------------------------------------------- C9
\* Thread w is between its admission (hit or claim) and its release.
InUse(w) == Claimant(w) \/ Reading(w)

C10_FreeOnlyWhenUnused ==
    [][(freed' # freed /\ ~exited') => cache_users = 0]_vars

FieldName(k) == IF k = "proxy-connection" THEN "Proxy-Connection" ELSE k

HasHeader(headers, k, v) ==
    \E i \in 1..Len(headers) : FieldName(headers[i].key) = k /\ headers[i].value = v

\* C12: the headers of every request delivered to an origin hold no
\* Proxy-Connection, Proxy-Authorization or Proxy-Authenticate header, hold
\* Connection: close and the Via: 1.1 header, and hold a Forwarded header
\* whose value is the address the client connected from.
C12_RewrittenHeaders ==
    \A c \in Clients :
        delivered[c] # <<>> =>
            /\ \A i \in 1..Len(delivered[c]) :
                  FieldName(delivered[c][i].key) \notin
                      {"Proxy-Connection", "Proxy-Authorization", "Proxy-Authenticate"}
            /\ HasHeader(delivered[c], "Connection", "close")
            /\ HasHeader(delivered[c], "Via", "1.1 MatthewTetaProxy")
            /\ HasHeader(delivered[c], "Forwarded", ClientIP(c))

\* ---------------------------------------------------------------- C13
\* Threads between the connect of the resolver and its close_connection.
Connected(w) == pc[w] \in {"cache_set", "fwrite"}

\* C13: every origin connection that is open belongs to a thread that is
\* between opening it and closing it: none stays open after the thread left
\* the resolver (leak) and none is closed twice.
C13_ConnectionsClosed ==
    origin_fds = Cardinality({w \in Workers : Connected(w)})

\* ---------------------------------------------------------------- C14
\* The worker of connection c is past http_message_recv and request_parse.
Received(c) == hc_pc[c] \notin {"none", "recv"}

\* C14: a request whose header region is longer than
\* HTTP_MESSAGE_MAX_HEADER_SIZE bytes is answered 400, and its worker opens
\* no origin connection, delivers nothing to an origin and never calls the
\* resolver.
C14_OversizedHeader ==
    \A c \in Clients :
        (Received(c) /\ client_in[c].sent > HTTP_MESSAGE_MAX_HEADER_SIZE) =>
            /\ client_recv[c] = [status |-> 400, body |-> ReasonBody(400)]
            /\ origin_conn[c] = NoConn
            /\ delivered[c] = <<>>
            /\ \A k \in Keys : resolver_calls[k] = 0

\* ---------------------------------------------------------------- C15
\* C15: when the client of a connection sends nothing and the poll of
\* http_message_recv times out, the worker writes no response to the client
\* and does nothing on an origin or the cache.
C15_IdleTimeoutSilent ==
    \A c \in Clients :
        (Received(c) /\ client_in[c].sent = 0 /\ client_in[c].last = "timeout") =>
            /\ client_recv[c] = NothingSent
            /\ origin_conn[c] = NoConn
            /\ delivered[c] = <<>>
            /\ ncalls = 0 /\ \A k \in Keys : resolver_calls[k] = 0

\* ---------------------------------------------------------------- C16
\* C16: whenever the upstream step of a worker fails (handle_client leaves
\* the fetch without a response to send), the client of its connection is
\* left with a 504 response.
C16_UpstreamFailure504 ==
    [][\A c \in Clients :
          (hc_pc[c] = "fetch" /\ hc_pc'[c] = "returned") =>
              client_recv'[c].status = 504]_vars

\* ---------------------------------------------------------------- C17
\* C17: a worker patches its request through to the origin with
\* response_fetch only when the key request_get_key derives is empty, and
\* doing so it neither calls cache_get nor touches a record or a file of the
\* cache.
C17_BypassIffEmptyKey ==
    [][\A c \in Clients :
          (hc_pc[c] = "fetch" /\ hc_pc'[c] \in {"send", "returned"}) =>
              /\ request_get_key(request[c]) = NoKey
              /\ ncalls' = ncalls /\ storage' = storage /\ files' = files]_vars

\* ---------------------------------------------------------------- C18
\* C18: once the interrupt has set stop_server the supervisor is not left
\* in the accept call, where the only step it can take is the accept of one
\* more connection.
C18_InterruptBreaksAccept == ~(stop_server = 1 /\ sup_pc = "accept")

\* ---------------------------------------------------------------- C19
\* C19: the supervisor sends no signal to a worker that is handling its
\* connection, and no such worker is ended before handle_client returns.
C19_NoForcedTermination ==
    [][\A c \in Clients :
          /\ c \in signalled' \ signalled => hc_pc[c] \notin Handling
          /\ hc_pc[c] \in Handling => hc_pc'[c] # "killed"]_vars

\* ---------------------------------------------------------------- C20
\* The supervisor waits for the workers only after it closed the listening
\* socket, and its cache or blocklist is released only after that wait, when
\* no worker is running.
FreedAfterWorkers ==
    /\ sup_pc \in {"wait", "stopped", "cache_freed", "done"} => serverfd = "closed"
    /\ (free_pc = "done" \/ blocklist = "freed") =>
           /\ sup_pc \in {"cache_freed", "done"}
           /\ \A c \in Clients : hc_pc[c] \notin Running

LinesOf(region, k) == {i \in 1..Len(region) : SplitLine(region[i]).key = k}

\* Number of headers with key k, and the headers of the other keys in order.
CountOf(headers, k) == Cardinality({i \in 1..Len(headers) : headers[i].key = k})
OthersOf(headers, k) == SelectSeq(headers, LAMBDA h : h.key # k)

\* A step that is one header operation on a parsed message.
HeaderOp(name) == Parsed /\ http'.op = name /\ http'.nops = http.nops + 1

\* C23 (duplicate names): after a header region was received and parsed,
\* get of a name the region carries more than once returns the value of
\* the last line with that name.
C23_LastWriteWins ==
    (http.op = "parse" /\ http.crashed = "no") =>
        \A k \in HeaderKeys :
            LET at == LinesOf(http.region, k)
            IN  Cardinality(at) >= 2 =>
                  LET last == CHOOSE i \in at : \A j \in at : j <= i
                  IN  http_message_header_get(http.headers, k)
                         = SplitLine(http.region[last]).value

\* C24 (set): http_message_header_set(k, v) gives the first header of key k
\* the value v when there is one and otherwise appends (k, v) at the end;
\* afterwards get(k) is v, the number of headers of key k is what it was
\* (one when there was none), and the headers of the other keys are the
\* same, in the same order.
C24_SetOverwritesOrAppends ==
    [][HeaderOp("set") =>
         LET h  == http.headers
             h2 == http'.headers
             k  == http'.k
             v  == http'.v
             i  == http_message_header_search(h, k)
         IN  /\ http_message_header_get(h2, k) = v
             /\ IF i = 0
                THEN h2 = Append(h, Header(k, v)) /\ CountOf(h2, k) = 1
                ELSE /\ h2 = [h EXCEPT ![i] = Header(k, v)]
                     /\ CountOf(h2, k) = CountOf(h, k)
             /\ OthersOf(h2, k) = OthersOf(h, k)]_vars

\* Both cases of set have happened on one message: (B, y) was appended to a
\* message without B, then the first of two A headers got the value y.
C24_Witness ==
    /\ http.op = "set" /\ http.nops = 2
    /\ http.region = << <<"A", ":", " ", "x">>, <<"A", ":", " ", "x">> >>
    /\ http.headers = <<Header("A", "y"), Header("A", "x"), Header("B", "y")>>

\* C25 (remove): after http_message_header_remove(k) on a message that has
\* k, get(k) finds nothing, one header less is left and the headers of the
\* other keys are the same in the same order; on a message without k
\* nothing changes.
C25_RemoveDeletes ==
    [][HeaderOp("remove") =>
         LET h  == http.headers
             h2 == http'.headers
             k  == http'.k
         IN  IF http_message_header_search(h, k) = 0
             THEN h2 = h
             ELSE /\ http_message_header_get(h2, k) = NoValue
                  /\ Len(h2) < Len(h)
                  /\ OthersOf(h2, k) = OthersOf(h, k)]_vars

HasColon(line) == \E i \in 1..Len(line) : line[i] = ":"

\* C30 (malformed lines): parsing a region goes through every line, a line
\* without colon adds no header and does not end the parse or the process,
\* the well-formed lines behind it are parsed, and no header has an empty
\* key.
C30_MalformedSkipped ==
    (/\ http.op = "parse"
     /\ \A i \in 1..Len(http.region) :
           HasColon(http.region[i]) => ~SplitLine(http.region[i]).val_null) =>
        /\ http.crashed = "no"
        /\ http.headers = SplitLines(SelectSeq(http.region, HasColon))
        /\ \A i \in 1..Len(http.headers) : http.headers[i].key # ""

\* --------------------------------------------------- http_message_recv
\* http_message_recv has returned a message.
RecvSuccess == http.op = "recv" /\ http.pc = "returned" /\ http.result = "message"

\* C26 (header limit): no message whose header region, blank line included,
\* is longer than HTTP_MESSAGE_MAX_HEADER_SIZE bytes is returned by
\* http_message_recv.
C26_HeaderLimit ==
    RecvSuccess => http.peer.hdr_len <= HTTP_MESSAGE_MAX_HEADER_SIZE

\* C27 (exact length): a message http_message_recv returns holds exactly
\* header_len + body_len bytes, body_len being the Content-Length value or
\* zero without the header; bytes beyond that make the receive fail, also
\* when body_len is zero.
C27_ExactLength ==
    RecvSuccess =>
        /\ http.body_len = atoi(http.peer.clen)
        /\ http.message_len = http.header_len + http.body_len

\* C28 (every read polled): each recv of http_message_recv, in the header
\* loop and in the body loop, comes right after a poll with the idle
\* timeout, and the receive never sits in a recv that a silent peer keeps
\* from returning.
C28_PollBeforeRead ==
    [][(http.op = "recv" /\ http'.op = "recv") =>
          /\ (http'.nrecv = http.nrecv + 1 => http.polled)
          /\ http'.pc # "blocked"]_vars

\* --------------------------------------------------- sending a message
\* A call of send_to_connection has returned.
SendReturned == http.op = "send" /\ http.pc = "next" /\ http.i >= 1

\* C21 (Content-Length on the wire): when http_message_send has returned,
\* the number of body bytes written behind the blank line is the value of
\* the Content-Length header it wrote, whatever parts or zero counts the
\* sends returned.
C21_ContentLengthSent ==
    (http.op = "send" /\ http.pc = "done") =>
        http.wire["body"]
           = atoi(http_message_header_get(http.headers, "Content-Length"))

\* C29 (send_all): a call of send_to_connection that returns has either
\* written every byte of the buffer and returns its length, or returns the
\* error -1; a send that returns 0 ends the call with the error, so no
\* short count is returned as success and the loop does not go on.
C29_SendAllOrError ==
    [][(http.op = "send" /\ http'.op = "send") =>
          /\ (http.pc = "loop" /\ http'.sent = <<0>> /\ http' # http) =>
                 (http'.pc = "next" /\ http'.rv = -1)
          /\ (http'.pc = "next" /\ http'.i >= 1 /\ http'.rv # -1) =>
                 (http'.rv = http'.msg_len /\ http'.bytes_sent = http'.msg_len)]_vars

\* C22 (round trip): for a message built from scratch whose Content-Length
\* is its body size, receiving the bytes http_message_send writes gives a
\* message with the same header line, the same headers (keys and values, in
\* order) and the same body.
C22_RoundTrip ==
    http.op = "received" =>
        /\ http.stream.ok
        /\ http.stream.header_line = Concat(http.message.header_line)
        /\ http.stream.headers = AsHeaders(http.message.headers)
        /\ http.stream.body = http.message.body

\* ---------------------------------------------------------- request.c
\* The fields the claim names are all set.
AllSet(r) ==
    r.host # NullChars /\ r.uri # NullChars /\ r.version # NullChars

\* C31 (cacheability and key): a request is cacheable exactly when its
\* method is GET and host, path and version are set; its key is host
\* followed by path when it is cacheable and empty otherwise, so the key is
\* non-empty exactly for cacheable requests.
C31_CacheableKey ==
    http.op = "request" =>
        LET r  == http.request
            is == request_is_cacheable(http.rev, r, http.cache_control) = 1
        IN  /\ is <=> (r.method = <<"GET">> /\ AllSet(r))
            /\ http.key = IF is THEN r.host \o r.uri ELSE <<>>
            /\ (http.key # <<>>) <=> is

\* C32 (Host header): when the request line has no host and the Host header
\* is host:port, request.host is the text in front of the first ':' and
\* request.port the number behind it; when the Host header has no ':',
\* request.host is the whole value and the port keeps its default.
C32_HostHeaderSplit ==
    (/\ http.op = "request" /\ http.from = "parse"
     /\ http.line.host = NullChars /\ http.host_header # NullChars) =>
        LET h  == http.host_header
            at == ColonAt(h)
        IN  IF at # 0
            THEN /\ http.request.host = SubSeq(h, 1, at - 1)
                 /\ http.request.port = atoi_chars(SubSeq(h, at + 1, Len(h)))
            ELSE /\ http.request.host = h
                 /\ http.request.port =
                       IF http.line.port = NullChars THEN -1
                       ELSE atoi_chars(http.line.port)

\* --------------------------------------------------------- response.c
\* C33 (fetch failure): when response_fetch has returned and one of its
\* steps failed (connect, send of the request, receive of the response,
\* parse of the status line), what it returned is NULL, never a response.
C33_FetchFailure ==
    (http.op = "fetch" /\ http.pc = "returned" /\ http.failed # {}) =>
        http.response = NullResponse

\* ------------------------------------------------------------ cache.c
\* The thread whose step of cache_get this is: it held record id and went
\* from position `from` to position `to`.
StepOf(id, from, to) ==
    {w \in Workers : /\ pc[w] = from /\ pc'[w] = to
                     /\ cache_entry_ptr[w] = id}

\* C34 (status transitions): in one step the status of a record changes
\* only from INVALID to IN_PROGRESS, by a thread in the coordination loop
\* that found num_users = 0; from IN_PROGRESS to OK, by the thread that
\* made the claim, its resolver having returned, the timestamp becoming
\* the time of that step; or from OK to INVALID, the age being above the
\* ttl.  A record that is new after the step is INVALID with num_users 0.
C34_Transition(id) ==
    LET old == storage[id]
        new == storage'[id]
    IN  old.status # new.status =>
          \/ /\ old.status = CACHE_ENTRY_STATUS_INVALID
             /\ new.status = CACHE_ENTRY_STATUS_IN_PROGRESS
             /\ old.num_users = 0
             /\ StepOf(id, "loop", "resolve") # {}
          \/ /\ old.status = CACHE_ENTRY_STATUS_IN_PROGRESS
             /\ new.status = CACHE_ENTRY_STATUS_OK
             /\ new.timestamp = now
             /\ \E w \in StepOf(id, "resolved", "fopen") :
                    synchronize_local_copy[w] = 1
          \/ /\ old.status = CACHE_ENTRY_STATUS_OK
             /\ new.status = CACHE_ENTRY_STATUS_INVALID
             /\ now - old.timestamp > TTL

C35_EveryCallReturns ==
    \A w \in Workers : (pc[w] # "idle") ~> (pc[w] = "idle" /\ ~exited)

\* Positions at which a thread inside cache_get reads or writes the index,
\* the record's status, num_users and timestamp, or cache->num_users; and
\* positions at which it is outside every sem_wait .. sem_post pair.
MutexAccess  == {"lookup", "switch", "mark", "rel"}
MutexOutside == {"idle", "resolve", "read"} \cup WaitPositions

\* The part of C36 about cache_get: its accesses are made with the mutex
\* held, it holds the mutex nowhere else, and the semaphore never counts
\* more than one.
MutexInCacheGet ==
    http.op = "mutex" =>
        /\ http.sem \in {0, 1}
        /\ \A w \in Workers :
              /\ http.tpc[w] \in MutexAccess \cup PostPositions => http.locks[w] = 1
              /\ http.tpc[w] \in MutexOutside => http.locks[w] = 0

\* C36 (mutex discipline): every access to the index, to a record's
\* status, num_users and timestamp and to cache->num_users, in cache_get
\* and in cache_free, is made by a thread that holds the mutex, and each
\* sem_wait of cache_get is followed by exactly one sem_post.
C36_MutexDiscipline ==
    /\ MutexInCacheGet
    /\ http.op = "mutex" =>
          (http.fpc \in {"f_test", "f_walk"} => http.locks[FreeThread] = 1)

\* ------------------------------------------------------------- http.c
\* The peer sends one whole message and nothing else: its header region
\* and as many body bytes as its Content-Length says.
WholeMessage ==
    http.peer.total = http.peer.hdr_len + atoi(http.peer.clen)

\* C37 (fragmentation): a whole message whose header region is at most
\* HTTP_MESSAGE_MAX_HEADER_SIZE bytes is returned by http_message_recv
\* whatever number of bytes, from 1 to MESSAGE_CHUNK_SIZE, each recv gives.
C37_AnyFragmentation ==
    (/\ http.op = "recv" /\ http.pc = "returned"
     /\ WholeMessage
     /\ http.peer.hdr_len <= HTTP_MESSAGE_MAX_HEADER_SIZE) =>
        http.result = "message"

\* The same for peers whose bytes are all in the socket before the first
\* recv.
BurstAccepted ==
    (/\ http.op = "recv" /\ http.pc = "returned"
     /\ WholeMessage /\ http.peer.pace = "burst"
     /\ http.peer.hdr_len <= HTTP_MESSAGE_MAX_HEADER_SIZE) =>
        http.result = "message"

\* ------------------------------------------------------------- main.c
\* The part of C38 about the count: when the final loop is reached,
\* num_children is at least the number of children that still run or are
\* not reaped.
CountCoversChildren ==
    (http.op = "children" /\ http.ppc = "final") =>
        http.num_children >= http.live + http.zombies

\* The final loop with no wait(NULL) interrupted by a signal.
DoneWithoutInterrupt ==
    (http.op = "children" /\ http.ppc = "done" /\ ~http.interrupted) =>
        http.live = 0

\* C38 (count of children): whatever the interleaving of the SIGCHLD
\* handler with num_children++, num_children at the start of the final
\* loop is at least the number of children still running, and the final
\* loop is left only when every child has exited.
C38_WaitsForChildren ==
    /\ (http.op = "children" /\ http.ppc = "final") =>
          http.num_children >= http.live
    /\ (http.op = "children" /\ http.ppc = "done") => http.live = 0

\* Positions of handle_request at which a worker reads or writes the cache
\* file of the key, and at which it fetches from the origin.
FileAccess == {"stat", "write", "write_rest"}
Exclusive  == FileAccess \cup {"fetching"}

\* C39 (exclusive file lock): a worker that reads or writes the cache file
\* of a key holds the flock on the file it accesses, and no two workers of
\* the same key are fetching from the origin or accessing the file at the
\* same time.
C39_ExclusiveAccess ==
    http.op = "flock" =>
        /\ \A c \in Clients :
              http.wpc[c] \in FileAccess => http.inodes[http.fd[c]].lock = c
        /\ \A c, d \in Clients :
              (c # d /\ http.wpc[c] \in Exclusive) => http.wpc[d] \notin Exclusive

\* The part of the lock that holds: two workers never hold the flock on
\* one file together, and a worker reads a cached response under its lock.
FlockOnOneFile ==
    http.op = "flock" =>
        \A c \in Clients : http.wpc[c] = "stat" => http.inodes[http.fd[c]].lock = c

\* --------------------------------------------------------- pid_list.c
\* The nodes met from node head on, following next, as the caller of
\* pid_list_reap meets them afterwards; the walk stops at a freed node.
RECURSIVE NodesFrom(_, _)
NodesFrom(head, fuel) ==
    IF head = NULL \/ fuel = 0 THEN <<>>
    ELSE IF head \in http.freed THEN <<head>>
    ELSE <<head>> \o NodesFrom(http.nodes[head].next, fuel - 1)

\* The pids of the children that have not exited, in the order of the list.
StillRunning == SelectSeq([i \in 1..http.n |-> i], LAMBDA p : p \notin http.exited)

\* C40 (reap pass): after pid_list_reap the list the supervisor goes on
\* with holds exactly the pids of the children that have not exited, in
\* their order, none of its nodes is freed, and no freed node was read
\* during the pass.
C40_ReapKeepsRunning ==
    (http.op = "reap" /\ http.pc \in {"returned", "crashed"}) =>
        LET kept == NodesFrom(http.child_pids, MaxPids)
        IN  /\ http.pc = "returned"
            /\ ~http.freed_access
            /\ \A i \in 1..Len(kept) : kept[i] \notin http.freed
            /\ [i \in 1..Len(kept) |-> http.nodes[kept[i]].pid] = StillRunning

\* What pid_list_remove does to the list it returns: the local list of
\* pid_list_reap holds the pids of the children not found exited so far,
\* in their order, and none of its nodes is freed.
LocalListRight ==
    (http.op = "reap" /\ http.pc = "returned") =>
        LET kept == NodesFrom(http.list, MaxPids)
        IN  /\ \A i \in 1..Len(kept) : kept[i] \notin http.freed
            /\ [i \in 1..Len(kept) |-> http.nodes[kept[i]].pid] = StillRunning
====
